---- MODULE Spec2Model ----
(***************************************************************************)
(* Parameter catalogue of lib/constants.py (typed parameter tables,        *)
(* defaults tables, global key sets, instance policy defaults) together    *)
(* with the disk template catalogue and the engines that consume them: the *)
(* type validator (validate), the layered parameter resolver               *)
(* (resolveEffective) and the instance-policy evaluator (evaluate).        *)
(***************************************************************************)
EXTENDS Integers, Sequences, FiniteSets, TLC

VARIABLES
  pc,               \* position of the caller: "start" (inputs given) or "done"
  spec,             \* evaluate: the instance specification
  template,         \* evaluate: the disk template
  policy,           \* evaluate: the instance policy
  aggregates,       \* evaluate: node-group aggregates supplied by the caller
  admission,        \* evaluate: the result
  findings,         \* the ratio findings returned alongside the result
  entityKind,       \* resolveEffective: entity kind and variant
  overridesByScope, \* resolveEffective: the override chain, lowest precedence first
  effective,        \* resolveEffective: the result
  query,            \* catalogue: the lookup asked of the disk template
  answer,           \* catalogue: the answer of the lookup
  rawText,          \* validate: the raw text
  vtype,            \* validate: the declared type
  value,            \* validate: the result
  disabledBarriers, \* DRBD: the barrier letters asked to be disabled
  barrierCheck,     \* DRBD: outcome of the membership test
  childStatuses,    \* disk status: the statuses of the children, in order
  worstStatus,      \* disk status: the combined status
  versionArgs,      \* versions: two (major, minor, revision) triples
  versionInts,      \* versions: the integers built from the triples
  versionSplit,     \* versions: the triples split out of the integers
  store,            \* reload: every configuration instance built so far
  current,          \* reload: the instance handed to new calls
  building,         \* reload: the instance under construction
  calls             \* reload: the calls, idle, in flight or finished

drbdVars == <<disabledBarriers, barrierCheck>>
ldsVars == <<childStatuses, worstStatus>>
versionVars == <<versionArgs, versionInts, versionSplit>>
reloadVars == <<store, current, building, calls>>

vars == <<pc, spec, template, policy, aggregates, admission, findings,
          entityKind, overridesByScope, effective, query, answer,
          rawText, vtype, value, drbdVars, ldsVars, versionVars, reloadVars>>

\* the parts of the state an execution does not use
DrbdIdle == disabledBarriers = <<>> /\ barrierCheck = "none"
LdsIdle == childStatuses = <<>> /\ worstStatus = 0
VersionIdle == versionArgs = <<>> /\ versionInts = <<>> /\ versionSplit = <<>>
ReloadIdle == store = <<>> /\ current = 0 /\ building = <<>> /\ calls = <<>>

(***************************************************************************)
(* Value types and typed values                                            *)
(***************************************************************************)
VTYPE_STRING == "string"
VTYPE_MAYBE_STRING == "maybe-string"
VTYPE_BOOL == "bool"
\* mutant: the size type carries the name of the integer type
VTYPE_SIZE_asInt == "int"

VTYPE_SIZE == "size"
VTYPE_INT == "int"
ENFORCEABLE_TYPES ==
  {VTYPE_STRING, VTYPE_MAYBE_STRING, VTYPE_BOOL, VTYPE_SIZE, VTYPE_INT}

\* A typed value: k is its kind, n its number (0/1 for a boolean), s its text
\* as a sequence of characters.
StrV(s) == [k |-> "str", n |-> 0, s |-> s]
IntV(n) == [k |-> "int", n |-> n, s |-> <<>>]
BoolV(b) == [k |-> "bool", n |-> IF b THEN 1 ELSE 0, s |-> <<>>]
\* the absent value (None)
NoneV == [k |-> "none", n |-> 0, s |-> <<>>]

\* mutant: the empty text is the sentinel of the absent value
VALUE_NONE_asEmpty == <<>>

VALUE_NONE == <<"n", "o", "n", "e">>

\* mutant: the true value is written 1
VALUE_TRUE_asOne == <<"1">>

VALUE_TRUE == <<"t", "r", "u", "e">>
VALUE_FALSE == <<"f", "a", "l", "s", "e">>
\* {"Nothing": None}
VALUE_HS_NOTHING == [k |-> "dict", n |-> 0, s |-> <<"N", "o", "t", "h", "i", "n", "g">>]

(***************************************************************************)
(* Disk templates and hypervisors                                          *)
(***************************************************************************)
DT_BLOCK == "blockdev"
DT_DISKLESS == "diskless"
DT_DRBD8 == "drbd"
DT_EXT == "ext"
DT_FILE == "file"
DT_PLAIN == "plain"
DT_RBD == "rbd"
DT_SHARED_FILE == "sharedfile"
DISK_TEMPLATES ==
  {DT_BLOCK, DT_DISKLESS, DT_DRBD8, DT_EXT, DT_FILE, DT_PLAIN, DT_RBD, DT_SHARED_FILE}

\* storage types
ST_BLOCK == "blockdev"
ST_DISKLESS == "diskless"
ST_EXT == "ext"
ST_FILE == "file"
ST_LVM_PV == "lvm-pv"
ST_LVM_VG == "lvm-vg"
ST_RADOS == "rados"
STORAGE_TYPES ==
  {ST_BLOCK, ST_DISKLESS, ST_EXT, ST_FILE, ST_LVM_PV, ST_LVM_VG, ST_RADOS}

\* mutant: the entry of the ext template is missing
MAP_DISK_TEMPLATE_STORAGE_TYPE_noExt ==
  (DT_BLOCK :> ST_BLOCK
   @@ DT_DISKLESS :> ST_DISKLESS
   @@ DT_DRBD8 :> ST_LVM_VG
   @@ DT_FILE :> ST_FILE
   @@ DT_PLAIN :> ST_LVM_VG
   @@ DT_RBD :> ST_RADOS
   @@ DT_SHARED_FILE :> ST_FILE)

\* mapping of disk templates to storage types
MAP_DISK_TEMPLATE_STORAGE_TYPE ==
  (DT_BLOCK :> ST_BLOCK
   @@ DT_DISKLESS :> ST_DISKLESS
   @@ DT_DRBD8 :> ST_LVM_VG
   @@ DT_EXT :> ST_EXT
   @@ DT_FILE :> ST_FILE
   @@ DT_PLAIN :> ST_LVM_VG
   @@ DT_RBD :> ST_RADOS
   @@ DT_SHARED_FILE :> ST_FILE)

\* the set of network-mirrored disk templates
DTS_INT_MIRROR == {DT_DRBD8}

\* mutant: drbd is entered among the externally mirrored templates too
DTS_EXT_MIRROR_withDrbd ==
  {DT_DISKLESS, DT_SHARED_FILE, DT_BLOCK, DT_RBD, DT_EXT, DT_DRBD8}

\* the set of externally-mirrored disk templates
DTS_EXT_MIRROR == {DT_DISKLESS, DT_SHARED_FILE, DT_BLOCK, DT_RBD, DT_EXT}

\* the set of non-lvm-based disk templates
DTS_NOT_LVM == {DT_DISKLESS, DT_FILE, DT_SHARED_FILE, DT_BLOCK, DT_RBD, DT_EXT}

\* the set of disk templates which can be grown
DTS_GROWABLE == {DT_PLAIN, DT_DRBD8, DT_FILE, DT_SHARED_FILE, DT_RBD, DT_EXT}

\* mutant: blockdev is left out of the templates that allow adoption
DTS_MAY_ADOPT_plainOnly == {DT_PLAIN}

\* the set of disk templates that allow adoption
DTS_MAY_ADOPT == {DT_PLAIN, DT_BLOCK}

\* the set of disk templates that must use adoption
DTS_MUST_ADOPT == {DT_BLOCK}

\* the set of disk templates that allow migrations
DTS_MIRRORED == DTS_INT_MIRROR \cup DTS_EXT_MIRROR

\* the set of file based disk templates
DTS_FILEBASED == {DT_FILE, DT_SHARED_FILE}

\* the set of disk templates that can be moved by copying
DTS_COPYABLE == {DT_FILE, DT_PLAIN}

\* the set of disk templates that are supported by exclusive_storage
DTS_EXCL_STORAGE == {DT_PLAIN}

\* templates for which no check on free space is performed
DTS_NO_FREE_SPACE_CHECK == {DT_FILE, DT_SHARED_FILE, DT_RBD, DT_EXT}

DTS_BLOCK == {DT_PLAIN, DT_DRBD8, DT_BLOCK, DT_RBD, DT_EXT}

HT_XEN_PVM == "xen-pvm"
HT_FAKE == "fake"
HT_XEN_HVM == "xen-hvm"
HT_KVM == "kvm"
HT_CHROOT == "chroot"
HT_LXC == "lxc"
HYPER_TYPES == {HT_XEN_PVM, HT_FAKE, HT_XEN_HVM, HT_KVM, HT_CHROOT, HT_LXC}

(***************************************************************************)
(* Parameter tables, defaults tables and global key sets                   *)
(***************************************************************************)
HVS_PARAMETER_TYPES ==
  ("kvm_path" :> VTYPE_STRING
   @@ "boot_order" :> VTYPE_STRING
   @@ "floppy_image_path" :> VTYPE_STRING
   @@ "cdrom_image_path" :> VTYPE_STRING
   @@ "cdrom2_image_path" :> VTYPE_STRING
   @@ "nic_type" :> VTYPE_STRING
   @@ "disk_type" :> VTYPE_STRING
   @@ "cdrom_disk_type" :> VTYPE_STRING
   @@ "vnc_password_file" :> VTYPE_STRING
   @@ "vnc_bind_address" :> VTYPE_STRING
   @@ "vnc_tls" :> VTYPE_BOOL
   @@ "vnc_x509_path" :> VTYPE_STRING
   @@ "vnc_x509_verify" :> VTYPE_BOOL
   @@ "spice_bind" :> VTYPE_STRING
   @@ "spice_ip_version" :> VTYPE_INT
   @@ "spice_password_file" :> VTYPE_STRING
   @@ "spice_image_compression" :> VTYPE_STRING
   @@ "spice_jpeg_wan_compression" :> VTYPE_STRING
   @@ "spice_zlib_glz_wan_compression" :> VTYPE_STRING
   @@ "spice_streaming_video" :> VTYPE_STRING
   @@ "spice_playback_compression" :> VTYPE_BOOL
   @@ "spice_use_tls" :> VTYPE_BOOL
   @@ "spice_tls_ciphers" :> VTYPE_STRING
   @@ "spice_use_vdagent" :> VTYPE_BOOL
   @@ "acpi" :> VTYPE_BOOL
   @@ "pae" :> VTYPE_BOOL
   @@ "use_bootloader" :> VTYPE_BOOL
   @@ "bootloader_path" :> VTYPE_STRING
   @@ "bootloader_args" :> VTYPE_STRING
   @@ "kernel_path" :> VTYPE_STRING
   @@ "kernel_args" :> VTYPE_STRING
   @@ "initrd_path" :> VTYPE_STRING
   @@ "root_path" :> VTYPE_MAYBE_STRING
   @@ "serial_console" :> VTYPE_BOOL
   @@ "serial_speed" :> VTYPE_INT
   @@ "usb_mouse" :> VTYPE_STRING
   @@ "keymap" :> VTYPE_STRING
   @@ "device_model" :> VTYPE_STRING
   @@ "init_script" :> VTYPE_STRING
   @@ "migration_port" :> VTYPE_INT
   @@ "migration_bandwidth" :> VTYPE_INT
   @@ "migration_downtime" :> VTYPE_INT
   @@ "migration_mode" :> VTYPE_STRING
   @@ "use_localtime" :> VTYPE_BOOL
   @@ "disk_cache" :> VTYPE_STRING
   @@ "security_model" :> VTYPE_STRING
   @@ "security_domain" :> VTYPE_STRING
   @@ "kvm_flag" :> VTYPE_STRING
   @@ "vhost_net" :> VTYPE_BOOL
   @@ "use_chroot" :> VTYPE_BOOL
   @@ "cpu_mask" :> VTYPE_STRING
   @@ "mem_path" :> VTYPE_STRING
   @@ "pci_pass" :> VTYPE_STRING
   @@ "blockdev_prefix" :> VTYPE_STRING
   @@ "reboot_behavior" :> VTYPE_STRING
   @@ "cpu_type" :> VTYPE_STRING
   @@ "cpu_cap" :> VTYPE_INT
   @@ "cpu_weight" :> VTYPE_INT
   @@ "cpu_cores" :> VTYPE_INT
   @@ "cpu_threads" :> VTYPE_INT
   @@ "cpu_sockets" :> VTYPE_INT
   @@ "soundhw" :> VTYPE_STRING
   @@ "usb_devices" :> VTYPE_STRING
   @@ "vga" :> VTYPE_STRING
   @@ "kvm_extra" :> VTYPE_STRING
   @@ "machine_version" :> VTYPE_STRING
   @@ "vif_type" :> VTYPE_STRING
   @@ "vif_script" :> VTYPE_STRING
   @@ "xen_cmd" :> VTYPE_STRING
   @@ "vnet_hdr" :> VTYPE_BOOL
   @@ "viridian" :> VTYPE_BOOL)

BES_PARAMETER_TYPES ==
  ("maxmem" :> VTYPE_SIZE
   @@ "minmem" :> VTYPE_SIZE
   @@ "vcpus" :> VTYPE_INT
   @@ "auto_balance" :> VTYPE_BOOL
   @@ "always_failover" :> VTYPE_BOOL
   @@ "spindle_use" :> VTYPE_INT)

ISPECS_PARAMETER_TYPES ==
  ("memory-size" :> VTYPE_INT
   @@ "cpu-count" :> VTYPE_INT
   @@ "disk-count" :> VTYPE_INT
   @@ "disk-size" :> VTYPE_INT
   @@ "nic-count" :> VTYPE_INT
   @@ "spindle-use" :> VTYPE_INT)

\* mutant: exclusive_storage is declared a string
NDS_PARAMETER_TYPES_exclString ==
  ("oob_program" :> VTYPE_STRING
   @@ "spindle_count" :> VTYPE_INT
   @@ "exclusive_storage" :> VTYPE_STRING
   @@ "ovs" :> VTYPE_BOOL
   @@ "ovs_name" :> VTYPE_MAYBE_STRING
   @@ "ovs_link" :> VTYPE_MAYBE_STRING)

NDS_PARAMETER_TYPES ==
  ("oob_program" :> VTYPE_STRING
   @@ "spindle_count" :> VTYPE_INT
   @@ "exclusive_storage" :> VTYPE_BOOL
   @@ "ovs" :> VTYPE_BOOL
   @@ "ovs_name" :> VTYPE_MAYBE_STRING
   @@ "ovs_link" :> VTYPE_MAYBE_STRING)

DISK_LD_TYPES ==
  ("resync-rate" :> VTYPE_INT
   @@ "stripes" :> VTYPE_INT
   @@ "disabled-barriers" :> VTYPE_STRING
   @@ "disable-meta-flush" :> VTYPE_BOOL
   @@ "default-metavg" :> VTYPE_STRING
   @@ "disk-custom" :> VTYPE_STRING
   @@ "net-custom" :> VTYPE_STRING
   @@ "protocol" :> VTYPE_STRING
   @@ "dynamic-resync" :> VTYPE_BOOL
   @@ "c-plan-ahead" :> VTYPE_INT
   @@ "c-fill-target" :> VTYPE_INT
   @@ "c-delay-target" :> VTYPE_INT
   @@ "c-max-rate" :> VTYPE_INT
   @@ "c-min-rate" :> VTYPE_INT
   @@ "pool" :> VTYPE_STRING)

DISK_DT_TYPES ==
  ("resync-rate" :> VTYPE_INT
   @@ "data-stripes" :> VTYPE_INT
   @@ "meta-stripes" :> VTYPE_INT
   @@ "disk-barriers" :> VTYPE_STRING
   @@ "meta-barriers" :> VTYPE_BOOL
   @@ "metavg" :> VTYPE_STRING
   @@ "disk-custom" :> VTYPE_STRING
   @@ "net-custom" :> VTYPE_STRING
   @@ "protocol" :> VTYPE_STRING
   @@ "dynamic-resync" :> VTYPE_BOOL
   @@ "c-plan-ahead" :> VTYPE_INT
   @@ "c-fill-target" :> VTYPE_INT
   @@ "c-delay-target" :> VTYPE_INT
   @@ "c-max-rate" :> VTYPE_INT
   @@ "c-min-rate" :> VTYPE_INT
   @@ "stripes" :> VTYPE_INT
   @@ "pool" :> VTYPE_STRING)

\* mutant: the NIC mode is declared a boolean
NICS_PARAMETER_TYPES_modeBool ==
  ("mode" :> VTYPE_BOOL
   @@ "link" :> VTYPE_STRING
   @@ "vlan" :> VTYPE_MAYBE_STRING)

NICS_PARAMETER_TYPES ==
  ("mode" :> VTYPE_STRING
   @@ "link" :> VTYPE_STRING
   @@ "vlan" :> VTYPE_MAYBE_STRING)

\* mutant: the backend defaults leave out vcpus
BEC_DEFAULTS_noVcpus ==
  ("minmem" :> IntV(128)
   @@ "maxmem" :> IntV(128)
   @@ "auto_balance" :> BoolV(TRUE)
   @@ "always_failover" :> BoolV(FALSE)
   @@ "spindle_use" :> IntV(1))

BEC_DEFAULTS ==
  ("minmem" :> IntV(128)
   @@ "maxmem" :> IntV(128)
   @@ "vcpus" :> IntV(1)
   @@ "auto_balance" :> BoolV(TRUE)
   @@ "always_failover" :> BoolV(FALSE)
   @@ "spindle_use" :> IntV(1))

\* mutant: the default of ovs_name is entered under a misspelt key
NDC_DEFAULTS_misspelt ==
  ("oob_program" :> StrV(<<>>)
   @@ "spindle_count" :> IntV(1)
   @@ "exclusive_storage" :> BoolV(FALSE)
   @@ "ovs" :> BoolV(FALSE)
   @@ "ovs-name" :> StrV(<<"s", "w", "i", "t", "c", "h", "1">>)
   @@ "ovs_link" :> StrV(<<>>))

NDC_DEFAULTS ==
  ("oob_program" :> StrV(<<>>)
   @@ "spindle_count" :> IntV(1)
   @@ "exclusive_storage" :> BoolV(FALSE)
   @@ "ovs" :> BoolV(FALSE)
   @@ "ovs_name" :> StrV(<<"s", "w", "i", "t", "c", "h", "1">>)
   @@ "ovs_link" :> StrV(<<>>))

NICC_DEFAULTS ==
  ("mode" :> StrV(<<"b", "r", "i", "d", "g", "e", "d">>)
   @@ "link" :> StrV(<<"x", "e", "n", "-", "b", "r", "0">>)
   @@ "vlan" :> VALUE_HS_NOTHING)

HVC_DEFAULTS ==
  ("xen-pvm" :> (
      ("use_bootloader" :> BoolV(FALSE)
       @@ "bootloader_path" :> StrV(<<>>)
       @@ "bootloader_args" :> StrV(<<>>)
       @@ "kernel_path" :> StrV(<<"/", "b", "o", "o", "t", "/", "v", "m", "l", "i", "n", "u", "z", "-", "3", "-", "x", "e", "n", "U">>)
       @@ "initrd_path" :> StrV(<<>>)
       @@ "root_path" :> StrV(<<"/", "d", "e", "v", "/", "x", "v", "d", "a", "1">>)
       @@ "kernel_args" :> StrV(<<"r", "o">>)
       @@ "migration_port" :> IntV(8002)
       @@ "migration_mode" :> StrV(<<"l", "i", "v", "e">>)
       @@ "blockdev_prefix" :> StrV(<<"s", "d">>)
       @@ "reboot_behavior" :> StrV(<<"r", "e", "b", "o", "o", "t">>)
       @@ "cpu_mask" :> StrV(<<"a", "l", "l">>)
       @@ "cpu_cap" :> IntV(0)
       @@ "cpu_weight" :> IntV(256)
       @@ "vif_script" :> StrV(<<>>)
       @@ "xen_cmd" :> StrV(<<"x", "m">>)))
   @@ "xen-hvm" :> (
      ("boot_order" :> StrV(<<"c", "d">>)
       @@ "cdrom_image_path" :> StrV(<<>>)
       @@ "nic_type" :> StrV(<<"r", "t", "l", "8", "1", "3", "9">>)
       @@ "disk_type" :> StrV(<<"p", "a", "r", "a", "v", "i", "r", "t", "u", "a", "l">>)
       @@ "vnc_bind_address" :> StrV(<<"0", ".", "0", ".", "0", ".", "0">>)
       @@ "vnc_password_file" :> StrV(<<"/", "e", "t", "c", "/", "g", "a", "n", "e", "t", "i", "/", "v", "n", "c", "-", "c", "l", "u", "s", "t", "e", "r", "-", "p", "a", "s", "s", "w", "o", "r", "d">>)
       @@ "acpi" :> BoolV(TRUE)
       @@ "pae" :> BoolV(TRUE)
       @@ "kernel_path" :> StrV(<<"/", "u", "s", "r", "/", "l", "i", "b", "/", "x", "e", "n", "/", "b", "o", "o", "t", "/", "h", "v", "m", "l", "o", "a", "d", "e", "r">>)
       @@ "device_model" :> StrV(<<"/", "u", "s", "r", "/", "l", "i", "b", "/", "x", "e", "n", "/", "b", "i", "n", "/", "q", "e", "m", "u", "-", "d", "m">>)
       @@ "migration_port" :> IntV(8002)
       @@ "migration_mode" :> StrV(<<"n", "o", "n", "-", "l", "i", "v", "e">>)
       @@ "use_localtime" :> BoolV(FALSE)
       @@ "blockdev_prefix" :> StrV(<<"h", "d">>)
       @@ "pci_pass" :> StrV(<<>>)
       @@ "reboot_behavior" :> StrV(<<"r", "e", "b", "o", "o", "t">>)
       @@ "cpu_mask" :> StrV(<<"a", "l", "l">>)
       @@ "cpu_cap" :> IntV(0)
       @@ "cpu_weight" :> IntV(256)
       @@ "vif_type" :> StrV(<<"i", "o", "e", "m", "u">>)
       @@ "vif_script" :> StrV(<<>>)
       @@ "viridian" :> BoolV(FALSE)
       @@ "xen_cmd" :> StrV(<<"x", "m">>)))
   @@ "kvm" :> (
      ("kvm_path" :> StrV(<<"/", "u", "s", "r", "/", "b", "i", "n", "/", "k", "v", "m">>)
       @@ "kernel_path" :> StrV(<<"/", "b", "o", "o", "t", "/", "v", "m", "l", "i", "n", "u", "z", "-", "3", "-", "k", "v", "m", "U">>)
       @@ "initrd_path" :> StrV(<<>>)
       @@ "kernel_args" :> StrV(<<"r", "o">>)
       @@ "root_path" :> StrV(<<"/", "d", "e", "v", "/", "v", "d", "a", "1">>)
       @@ "acpi" :> BoolV(TRUE)
       @@ "serial_console" :> BoolV(TRUE)
       @@ "serial_speed" :> IntV(38400)
       @@ "vnc_bind_address" :> StrV(<<>>)
       @@ "vnc_tls" :> BoolV(FALSE)
       @@ "vnc_x509_path" :> StrV(<<>>)
       @@ "vnc_x509_verify" :> BoolV(FALSE)
       @@ "vnc_password_file" :> StrV(<<>>)
       @@ "spice_bind" :> StrV(<<>>)
       @@ "spice_ip_version" :> IntV(0)
       @@ "spice_password_file" :> StrV(<<>>)
       @@ "spice_image_compression" :> StrV(<<>>)
       @@ "spice_jpeg_wan_compression" :> StrV(<<>>)
       @@ "spice_zlib_glz_wan_compression" :> StrV(<<>>)
       @@ "spice_streaming_video" :> StrV(<<>>)
       @@ "spice_playback_compression" :> BoolV(TRUE)
       @@ "spice_use_tls" :> BoolV(FALSE)
       @@ "spice_tls_ciphers" :> StrV(<<"H", "I", "G", "H", ":", "-", "D", "E", "S", ":", "-", "3", "D", "E", "S", ":", "-", "E", "X", "P", "O", "R", "T", ":", "-", "A", "D", "H">>)
       @@ "spice_use_vdagent" :> BoolV(TRUE)
       @@ "floppy_image_path" :> StrV(<<>>)
       @@ "cdrom_image_path" :> StrV(<<>>)
       @@ "cdrom2_image_path" :> StrV(<<>>)
       @@ "boot_order" :> StrV(<<"d", "i", "s", "k">>)
       @@ "nic_type" :> StrV(<<"p", "a", "r", "a", "v", "i", "r", "t", "u", "a", "l">>)
       @@ "disk_type" :> StrV(<<"p", "a", "r", "a", "v", "i", "r", "t", "u", "a", "l">>)
       @@ "cdrom_disk_type" :> StrV(<<>>)
       @@ "usb_mouse" :> StrV(<<>>)
       @@ "keymap" :> StrV(<<>>)
       @@ "migration_port" :> IntV(8102)
       @@ "migration_bandwidth" :> IntV(32)
       @@ "migration_downtime" :> IntV(30)
       @@ "migration_mode" :> StrV(<<"l", "i", "v", "e">>)
       @@ "use_localtime" :> BoolV(FALSE)
       @@ "disk_cache" :> StrV(<<"d", "e", "f", "a", "u", "l", "t">>)
       @@ "security_model" :> StrV(<<"n", "o", "n", "e">>)
       @@ "security_domain" :> StrV(<<>>)
       @@ "kvm_flag" :> StrV(<<>>)
       @@ "vhost_net" :> BoolV(FALSE)
       @@ "use_chroot" :> BoolV(FALSE)
       @@ "mem_path" :> StrV(<<>>)
       @@ "reboot_behavior" :> StrV(<<"r", "e", "b", "o", "o", "t">>)
       @@ "cpu_mask" :> StrV(<<"a", "l", "l">>)
       @@ "cpu_type" :> StrV(<<>>)
       @@ "cpu_cores" :> IntV(0)
       @@ "cpu_threads" :> IntV(0)
       @@ "cpu_sockets" :> IntV(0)
       @@ "soundhw" :> StrV(<<>>)
       @@ "usb_devices" :> StrV(<<>>)
       @@ "vga" :> StrV(<<>>)
       @@ "kvm_extra" :> StrV(<<>>)
       @@ "machine_version" :> StrV(<<>>)
       @@ "vnet_hdr" :> BoolV(TRUE)))
   @@ "fake" :> (
      ("migration_mode" :> StrV(<<"l", "i", "v", "e">>)))
   @@ "chroot" :> (
      ("init_script" :> StrV(<<"/", "g", "a", "n", "e", "t", "i", "-", "c", "h", "r", "o", "o", "t">>)))
   @@ "lxc" :> (
      ("cpu_mask" :> StrV(<<>>))))

\* mutant: no entries for the templates ext and diskless
DISK_LD_DEFAULTS_noExt ==
  [t \in {DT_DRBD8, DT_PLAIN, DT_FILE, DT_SHARED_FILE, DT_BLOCK, DT_RBD}
     |-> <<>>]

DISK_LD_DEFAULTS ==
  ("drbd" :> (
      ("resync-rate" :> IntV(61440)
       @@ "disabled-barriers" :> StrV(<<"n">>)
       @@ "disable-meta-flush" :> BoolV(FALSE)
       @@ "default-metavg" :> StrV(<<"x", "e", "n", "v", "g">>)
       @@ "disk-custom" :> StrV(<<>>)
       @@ "net-custom" :> StrV(<<>>)
       @@ "protocol" :> StrV(<<"C">>)
       @@ "dynamic-resync" :> BoolV(FALSE)
       @@ "c-plan-ahead" :> IntV(20)
       @@ "c-fill-target" :> IntV(0)
       @@ "c-delay-target" :> IntV(1)
       @@ "c-max-rate" :> IntV(61440)
       @@ "c-min-rate" :> IntV(4096)))
   @@ "plain" :> (
      ("stripes" :> IntV(1)))
   @@ "file" :> (
      <<>>)
   @@ "sharedfile" :> (
      <<>>)
   @@ "blockdev" :> (
      <<>>)
   @@ "rbd" :> (
      ("pool" :> StrV(<<"r", "b", "d">>)))
   @@ "ext" :> (
      <<>>))

DISK_DT_DEFAULTS ==
  ("plain" :> (
      ("stripes" :> IntV(1)))
   @@ "drbd" :> (
      ("resync-rate" :> IntV(61440)
       @@ "data-stripes" :> IntV(1)
       @@ "meta-stripes" :> IntV(1)
       @@ "disk-barriers" :> StrV(<<"n">>)
       @@ "meta-barriers" :> BoolV(FALSE)
       @@ "metavg" :> StrV(<<"x", "e", "n", "v", "g">>)
       @@ "disk-custom" :> StrV(<<>>)
       @@ "net-custom" :> StrV(<<>>)
       @@ "protocol" :> StrV(<<"C">>)
       @@ "dynamic-resync" :> BoolV(FALSE)
       @@ "c-plan-ahead" :> IntV(20)
       @@ "c-fill-target" :> IntV(0)
       @@ "c-delay-target" :> IntV(1)
       @@ "c-max-rate" :> IntV(61440)
       @@ "c-min-rate" :> IntV(4096)))
   @@ "diskless" :> (
      <<>>)
   @@ "file" :> (
      <<>>)
   @@ "sharedfile" :> (
      <<>>)
   @@ "blockdev" :> (
      <<>>)
   @@ "rbd" :> (
      ("pool" :> StrV(<<"r", "b", "d">>)))
   @@ "ext" :> (
      <<>>))

\* mutant: xen_cmd is left out of the global keys
HVC_GLOBALS_noXenCmd ==
  {"migration_bandwidth", "migration_mode", "migration_port"}

HVC_GLOBALS ==
  {"migration_bandwidth", "migration_mode", "migration_port", "xen_cmd"}

\* mutant: the global node key is entered under a misspelt name
NDC_GLOBALS_misspelt ==
  {"exclusive-storage"}

NDC_GLOBALS ==
  {"exclusive_storage"}

HVS_PARAMETERS == DOMAIN HVS_PARAMETER_TYPES
BES_PARAMETERS == DOMAIN BES_PARAMETER_TYPES
NDS_PARAMETERS == DOMAIN NDS_PARAMETER_TYPES
NICS_PARAMETERS == DOMAIN NICS_PARAMETER_TYPES
DISK_LD_PARAMETERS == DOMAIN DISK_LD_TYPES
DISK_DT_PARAMETERS == DOMAIN DISK_DT_TYPES
ISPECS_PARAMETERS == DOMAIN ISPECS_PARAMETER_TYPES

\* BES_PARAMETER_COMPAT = {memory: size}, then .update(BES_PARAMETER_TYPES)
BES_PARAMETER_COMPAT ==
  BES_PARAMETER_TYPES @@ ("memory" :> VTYPE_SIZE)

(***************************************************************************)
(* Instance policy defaults                                                *)
(***************************************************************************)
MAX_NICS == 8
MAX_DISKS == 16

\* mutant: the default maximum memory size is 32 instead of 32768
ISPECS_MINMAX_DEFAULTS_mem32 ==
  [min |-> ("memory-size" :> 128
            @@ "cpu-count" :> 1
            @@ "disk-count" :> 1
            @@ "disk-size" :> 1024
            @@ "nic-count" :> 1
            @@ "spindle-use" :> 1),
   max |-> ("memory-size" :> 32
            @@ "cpu-count" :> 8
            @@ "disk-count" :> MAX_DISKS
            @@ "disk-size" :> 1024 * 1024
            @@ "nic-count" :> MAX_NICS
            @@ "spindle-use" :> 12)]

\* mutant: the default maximum cpu count is 4 instead of 8
ISPECS_MINMAX_DEFAULTS_cpu4 ==
  [min |-> ("memory-size" :> 128
            @@ "cpu-count" :> 1
            @@ "disk-count" :> 1
            @@ "disk-size" :> 1024
            @@ "nic-count" :> 1
            @@ "spindle-use" :> 1),
   max |-> ("memory-size" :> 32768
            @@ "cpu-count" :> 4
            @@ "disk-count" :> MAX_DISKS
            @@ "disk-size" :> 1024 * 1024
            @@ "nic-count" :> MAX_NICS
            @@ "spindle-use" :> 12)]

ISPECS_MINMAX_DEFAULTS ==
  [min |-> ("memory-size" :> 128
            @@ "cpu-count" :> 1
            @@ "disk-count" :> 1
            @@ "disk-size" :> 1024
            @@ "nic-count" :> 1
            @@ "spindle-use" :> 1),
   max |-> ("memory-size" :> 32768
            @@ "cpu-count" :> 8
            @@ "disk-count" :> MAX_DISKS
            @@ "disk-size" :> 1024 * 1024
            @@ "nic-count" :> MAX_NICS
            @@ "spindle-use" :> 12)]

\* A ratio limit (a float in the source) as an exact fraction num/den.
Ratio(num, den) == [num |-> num, den |-> den]

\* mutant: the standard memory size is 64, below the default minimum
IPOLICY_DEFAULTS_stdMem64 ==
  ("minmax" :> <<ISPECS_MINMAX_DEFAULTS>>
   @@ "std" :> ("memory-size" :> 64
                @@ "cpu-count" :> 1
                @@ "disk-count" :> 1
                @@ "disk-size" :> 1024
                @@ "nic-count" :> 1
                @@ "spindle-use" :> 1)
   @@ "disk-templates" :> DISK_TEMPLATES
   @@ "vcpu-ratio" :> Ratio(4, 1)
   @@ "spindle-ratio" :> Ratio(32, 1))

\* mutant: the default vcpu ratio is 5.0 instead of 4.0
IPOLICY_DEFAULTS_vcpu5 ==
  ("minmax" :> <<ISPECS_MINMAX_DEFAULTS>>
   @@ "std" :> ("memory-size" :> 128
                @@ "cpu-count" :> 1
                @@ "disk-count" :> 1
                @@ "disk-size" :> 1024
                @@ "nic-count" :> 1
                @@ "spindle-use" :> 1)
   @@ "disk-templates" :> DISK_TEMPLATES
   @@ "vcpu-ratio" :> Ratio(5, 1)
   @@ "spindle-ratio" :> Ratio(32, 1))

IPOLICY_DEFAULTS ==
  ("minmax" :> <<ISPECS_MINMAX_DEFAULTS>>
   @@ "std" :> ("memory-size" :> 128
                @@ "cpu-count" :> 1
                @@ "disk-count" :> 1
                @@ "disk-size" :> 1024
                @@ "nic-count" :> 1
                @@ "spindle-use" :> 1)
   @@ "disk-templates" :> DISK_TEMPLATES
   @@ "vcpu-ratio" :> Ratio(4, 1)
   @@ "spindle-ratio" :> Ratio(32, 1))

(***************************************************************************)
(* PolicyEvaluator                                                         *)
(***************************************************************************)
\* The six dimensions in a fixed order, for sums over the dimensions.
DimOrder ==
  <<"memory-size", "cpu-count", "disk-count", "disk-size", "nic-count", "spindle-use">>

Max0(x) == IF x > 0 THEN x ELSE 0

\* mutant: the comparison with the maximum cpu count is turned round
Matches_flipped(s, b) ==
  \A d \in ISPECS_PARAMETERS :
    /\ b.min[d] <= s[d]
    /\ IF d = "cpu-count" THEN s[d] >= b.max[d] ELSE s[d] <= b.max[d]

\* b matches iff for every dimension d, b.min[d] <= spec[d] <= b.max[d]
Matches(s, b) ==
  \A d \in ISPECS_PARAMETERS : b.min[d] <= s[d] /\ s[d] <= b.max[d]

\* a dimension's overshoot: max(0, spec[d]-b.max[d]) + max(0, b.min[d]-spec[d])
Overshoot(s, b, d) == Max0(s[d] - b.max[d]) + Max0(b.min[d] - s[d])

\* the overshoot is normalized by max(b.max[d], 1)
NormDen(b, d) == IF b.max[d] > 1 THEN b.max[d] ELSE 1

RECURSIVE GCD(_, _)
GCD(a, b) == IF b = 0 THEN a ELSE GCD(b, a % b)

LCM(a, b) == (a \div GCD(a, b)) * b

RECURSIVE LCMOfDims(_, _)
LCMOfDims(b, i) ==
  IF i > Len(DimOrder) THEN 1
  ELSE LCM(NormDen(b, DimOrder[i]), LCMOfDims(b, i + 1))

\* The least common multiple of all normalizers of a bracket sequence: the
\* scores of its brackets are compared exactly as fractions over it.
RECURSIVE CommonDen(_, _)
CommonDen(brackets, i) ==
  IF i > Len(brackets) THEN 1
  ELSE LCM(LCMOfDims(brackets[i], 1), CommonDen(brackets, i + 1))

\* score(b) * L: the sum over the dimensions of overshoot / max(b.max[d], 1),
\* scaled by the common denominator L
RECURSIVE ScoreNum(_, _, _, _)
ScoreNum(s, b, L, i) ==
  IF i > Len(DimOrder) THEN 0
  ELSE Overshoot(s, b, DimOrder[i]) * (L \div NormDen(b, DimOrder[i]))
       + ScoreNum(s, b, L, i + 1)

\* the scores of the brackets, each as its numerator over the common denominator
Scores(s, brackets) ==
  LET L == CommonDen(brackets, 1)
  IN  [i \in 1..Len(brackets) |-> ScoreNum(s, brackets[i], L, 1)]

\* mutant: only the first bracket is tried
FirstMatch_onlyFirst(s, brackets) ==
  IF Matches(s, brackets[1]) THEN 1 ELSE 0

\* the first bracket, in order, that matches (0 when none does)
FirstMatch(s, brackets) ==
  LET matching == {i \in 1..Len(brackets) : Matches(s, brackets[i])}
  IN  IF matching = {} THEN 0
      ELSE CHOOSE i \in matching : \A j \in matching : i <= j

\* mutant: the last bracket is reported, whatever its score
Closest_last(s, brackets) == Len(brackets)

\* the bracket with minimum score (the first one among equals)
Closest(s, brackets) ==
  LET score == Scores(s, brackets)
      least == {i \in DOMAIN score : \A j \in DOMAIN score : score[i] <= score[j]}
  IN  CHOOSE i \in least : \A j \in least : i <= j

\* per dimension, whether the spec is too low or too high and by how much
Diagnostics(s, b) ==
  {[dim |-> d, dir |-> "too high", by |-> s[d] - b.max[d]] :
     d \in {e \in ISPECS_PARAMETERS : s[e] > b.max[e]}}
  \cup
  {[dim |-> d, dir |-> "too low", by |-> b.min[d] - s[d]] :
     d \in {e \in ISPECS_PARAMETERS : s[e] < b.min[e]}}

\* The node-group aggregates a caller may supply.
NoAggregates ==
  [supplied |-> FALSE, node_cpus |-> 1, inst_vcpus |-> 0,
   node_spindles |-> 1, inst_spindles |-> 0]

\* actual (a fraction) exceeds limit (a fraction)
Exceeds(actual, limit) == actual.num * limit.den > limit.num * actual.den

\* step 4: the advisory ratio findings, computed independently of the
\* brackets from the aggregates the caller supplies
RatioFindings(agg, pol) ==
  IF ~agg.supplied THEN {}
  ELSE
    {[dimension |-> "vcpu", actual |-> Ratio(agg.inst_vcpus, agg.node_cpus),
      limit |-> pol["vcpu-ratio"]] :
        x \in {y \in {1} : Exceeds(Ratio(agg.inst_vcpus, agg.node_cpus),
                                   pol["vcpu-ratio"])}}
    \cup
    {[dimension |-> "spindle", actual |-> Ratio(agg.inst_spindles, agg.node_spindles),
      limit |-> pol["spindle-ratio"]] :
        x \in {y \in {1} : Exceeds(Ratio(agg.inst_spindles, agg.node_spindles),
                                   pol["spindle-ratio"])}}

\* mutant: the brackets are tried before the disk template is looked at
evaluate_bracketsFirst(s, t, pol) ==
  LET first == FirstMatch(s, pol["minmax"])
  IN  IF first = 0
      THEN LET closest == Closest(s, pol["minmax"])
           IN  [decision |-> "Rejected", reason |-> "NoMatchingBracket",
                bracket |-> closest,
                diagnostics |-> Diagnostics(s, pol["minmax"][closest])]
      ELSE IF t \notin pol["disk-templates"]
      THEN [decision |-> "Rejected", reason |-> "DisallowedDiskTemplate",
            bracket |-> 0, diagnostics |-> {}]
      ELSE [decision |-> "Accepted", reason |-> "None",
            bracket |-> first, diagnostics |-> {}]

\* evaluate(spec, template, policy) -> Admission (steps 1 to 3)
evaluate(s, t, pol) ==
  IF t \notin pol["disk-templates"]
  THEN [decision |-> "Rejected", reason |-> "DisallowedDiskTemplate",
        bracket |-> 0, diagnostics |-> {}]
  ELSE LET first == FirstMatch(s, pol["minmax"])
       IN  IF first # 0
           THEN [decision |-> "Accepted", reason |-> "None",
                 bracket |-> first, diagnostics |-> {}]
           ELSE LET closest == Closest(s, pol["minmax"])
                IN  [decision |-> "Rejected", reason |-> "NoMatchingBracket",
                     bracket |-> closest,
                     diagnostics |-> Diagnostics(s, pol["minmax"][closest])]

(***************************************************************************)
(* DiskTemplateCatalogue                                                   *)
(***************************************************************************)
\* the answers of a lookup: a storage type, a truth value, or the KeyError
\* that reading a dictionary at a missing key raises
StorageAnswer(st) == [kind |-> "storage", st |-> st, truth |-> FALSE]
TruthAnswer(b) == [kind |-> "truth", st |-> "", truth |-> b]
KeyError == [kind |-> "KeyError", st |-> "", truth |-> FALSE]
NoAnswer == [kind |-> "none", st |-> "", truth |-> FALSE]

StorageType(t) ==
  IF t \in DOMAIN MAP_DISK_TEMPLATE_STORAGE_TYPE
  THEN StorageAnswer(MAP_DISK_TEMPLATE_STORAGE_TYPE[t])
  ELSE KeyError

IsGrowable(t) == TruthAnswer(t \in DTS_GROWABLE)
MayAdopt(t) == TruthAnswer(t \in DTS_MAY_ADOPT)
MustAdopt(t) == TruthAnswer(t \in DTS_MUST_ADOPT)
IsInternallyMirrored(t) == TruthAnswer(t \in DTS_INT_MIRROR)
IsExternallyMirrored(t) == TruthAnswer(t \in DTS_EXT_MIRROR)
IsFileBased(t) == TruthAnswer(t \in DTS_FILEBASED)
IsCopyable(t) == TruthAnswer(t \in DTS_COPYABLE)
SupportsExclusiveStorage(t) == TruthAnswer(t \in DTS_EXCL_STORAGE)
SkipsFreeSpaceCheck(t) == TruthAnswer(t \in DTS_NO_FREE_SPACE_CHECK)

\* the lookups of the catalogue, by name
Queries ==
  {"StorageType", "IsGrowable", "MayAdopt", "MustAdopt",
   "IsInternallyMirrored", "IsExternallyMirrored", "IsFileBased",
   "IsCopyable", "SupportsExclusiveStorage", "SkipsFreeSpaceCheck"}

Lookup(q, t) ==
  CASE q = "StorageType" -> StorageType(t)
    [] q = "IsGrowable" -> IsGrowable(t)
    [] q = "MayAdopt" -> MayAdopt(t)
    [] q = "MustAdopt" -> MustAdopt(t)
    [] q = "IsInternallyMirrored" -> IsInternallyMirrored(t)
    [] q = "IsExternallyMirrored" -> IsExternallyMirrored(t)
    [] q = "IsFileBased" -> IsFileBased(t)
    [] q = "IsCopyable" -> IsCopyable(t)
    [] q = "SupportsExclusiveStorage" -> SupportsExclusiveStorage(t)
    [] q = "SkipsFreeSpaceCheck" -> SkipsFreeSpaceCheck(t)

(***************************************************************************)
(* TypeValidator                                                           *)
(***************************************************************************)
Digits == <<"0", "1", "2", "3", "4", "5", "6", "7", "8", "9">>

UpperCase ==
  <<"A", "B", "C", "D", "E", "F", "G", "H", "I", "J", "K", "L", "M",
    "N", "O", "P", "Q", "R", "S", "T", "U", "V", "W", "X", "Y", "Z">>

LowerCase ==
  <<"a", "b", "c", "d", "e", "f", "g", "h", "i", "j", "k", "l", "m",
    "n", "o", "p", "q", "r", "s", "t", "u", "v", "w", "x", "y", "z">>

IsDigit(c) == \E i \in 1..Len(Digits) : Digits[i] = c

DigitValue(c) == (CHOOSE i \in 1..Len(Digits) : Digits[i] = c) - 1

ToLowerChar(c) ==
  IF \E i \in 1..Len(UpperCase) : UpperCase[i] = c
  THEN LowerCase[CHOOSE i \in 1..Len(UpperCase) : UpperCase[i] = c]
  ELSE c

ToLower(text) == [i \in 1..Len(text) |-> ToLowerChar(text[i])]

AllDigits(text) == Len(text) > 0 /\ \A i \in 1..Len(text) : IsDigit(text[i])

\* the number a non-empty sequence of digits denotes
RECURSIVE DigitsValue(_)
DigitsValue(text) ==
  IF Len(text) = 0 THEN 0
  ELSE 10 * DigitsValue(SubSeq(text, 1, Len(text) - 1)) + DigitValue(text[Len(text)])

Valid(v) == [ok |-> TRUE, v |-> v]
Invalid == [ok |-> FALSE, v |-> NoneV]
NoValue == [ok |-> FALSE, v |-> [k |-> "unset", n |-> 0, s |-> <<>>]]

\* an optionally signed decimal integer literal
ParseInt(text) ==
  IF Len(text) > 0 /\ text[1] \in {"+", "-"}
  THEN IF AllDigits(Tail(text))
       THEN Valid(IntV(IF text[1] = "-" THEN 0 - DigitsValue(Tail(text))
                       ELSE DigitsValue(Tail(text))))
       ELSE Invalid
  ELSE IF AllDigits(text) THEN Valid(IntV(DigitsValue(text))) ELSE Invalid

\* the unit suffixes and their multipliers relative to the base unit
SizeUnits == ("m" :> 1 @@ "g" :> 1024 @@ "t" :> 1024 * 1024)

\* an integer with an optional, case-insensitive unit suffix; not negative
ParseSize(text) ==
  LET n == Len(text)
      suffixed == n > 0 /\ ToLowerChar(text[n]) \in DOMAIN SizeUnits
      number == IF suffixed THEN SubSeq(text, 1, n - 1) ELSE text
      unit == IF suffixed THEN SizeUnits[ToLowerChar(text[n])] ELSE 1
      parsed == ParseInt(number)
  IN  IF parsed.ok /\ parsed.v.n >= 0 THEN Valid(IntV(parsed.v.n * unit))
      ELSE Invalid

ParseBool(text) ==
  IF ToLower(text) \in {VALUE_TRUE, <<"y", "e", "s">>} THEN Valid(BoolV(TRUE))
  ELSE IF ToLower(text) \in {VALUE_FALSE, <<"n", "o">>} THEN Valid(BoolV(FALSE))
  ELSE Invalid

\* validate(raw, type) -> value | Error(InvalidValueType)
validate(raw, type) ==
  CASE type = VTYPE_STRING -> Valid(StrV(raw))
    [] type = VTYPE_MAYBE_STRING ->
         IF raw = VALUE_NONE THEN Valid(NoneV) ELSE Valid(StrV(raw))
    [] type = VTYPE_BOOL -> ParseBool(raw)
    [] type = VTYPE_INT -> ParseInt(raw)
    [] type = VTYPE_SIZE -> ParseSize(raw)

\* the decimal digits of a non-negative integer
RECURSIVE ToDigits(_)
ToDigits(n) ==
  IF n < 10 THEN <<Digits[n + 1]>>
  ELSE Append(ToDigits(n \div 10), Digits[(n % 10) + 1])

\* the units in which a size is a whole number
ExactUnits(n) == {u \in DOMAIN SizeUnits : n % SizeUnits[u] = 0}

\* the canonical unit of a size: the largest unit in which it is a whole number
CanonicalUnit(n) ==
  IF n = 0 THEN "m"
  ELSE CHOOSE u \in ExactUnits(n) :
         \A w \in ExactUnits(n) : SizeUnits[w] <= SizeUnits[u]

\* a size formatted with a unit in which it is a whole number
FormatWith(n, u) == Append(ToDigits(n \div SizeUnits[u]), u)

\* a size formatted with its canonical unit
FormatSize(n) == FormatWith(n, CanonicalUnit(n))

\* a provided value satisfies TypeValidator for a declared type: it is a value
\* of that type already, or text that validate accepts for the type
Satisfies(v, type) ==
  \/ v.k = "str" /\ validate(v.s, type).ok
  \/ CASE type = VTYPE_BOOL -> v.k = "bool"
        [] type \in {VTYPE_INT, VTYPE_SIZE} -> v.k = "int" /\ v.n >= 0
        [] type = VTYPE_STRING -> v.k = "str"
        [] type = VTYPE_MAYBE_STRING -> v.k \in {"str", "none"}
        [] OTHER -> FALSE

(***************************************************************************)
(* ParameterSpace / DefaultResolver                                        *)
(***************************************************************************)
\* the scopes, from the widest to the narrowest
Levels == <<"cluster", "group", "instance">>

\* mutant: the backend keys are looked up in the compatibility table
ParameterTable_compat(ek) ==
  CASE ek.kind = "hypervisor" -> HVS_PARAMETER_TYPES
    [] ek.kind = "backend" -> BES_PARAMETER_COMPAT
    [] ek.kind = "node" -> NDS_PARAMETER_TYPES
    [] ek.kind = "nic" -> NICS_PARAMETER_TYPES
    [] ek.kind = "disk" -> DISK_DT_TYPES

\* the ParameterTable of an entity kind
ParameterTable(ek) ==
  CASE ek.kind = "hypervisor" -> HVS_PARAMETER_TYPES
    [] ek.kind = "backend" -> BES_PARAMETER_TYPES
    [] ek.kind = "node" -> NDS_PARAMETER_TYPES
    [] ek.kind = "nic" -> NICS_PARAMETER_TYPES
    [] ek.kind = "disk" -> DISK_DT_TYPES

\* the compiled-in DefaultsTable of an entity kind and variant
DefaultsTable(ek) ==
  CASE ek.kind = "hypervisor" -> HVC_DEFAULTS[ek.variant]
    [] ek.kind = "backend" -> BEC_DEFAULTS
    [] ek.kind = "node" -> NDC_DEFAULTS
    [] ek.kind = "nic" -> NICC_DEFAULTS
    [] ek.kind = "disk" -> DISK_DT_DEFAULTS[ek.variant]

\* the GlobalKeySet of an entity kind
GlobalKeySet(ek) ==
  CASE ek.kind = "hypervisor" -> HVC_GLOBALS
    [] ek.kind = "node" -> NDC_GLOBALS
    [] OTHER -> {}

\* the overrides of a chain in the order they are processed: scope by scope
\* in ascending precedence, and within a scope in the order of its items
RECURSIVE Flatten(_)
Flatten(chain) ==
  IF Len(chain) = 0 THEN <<>>
  ELSE [i \in 1..Len(chain[1].items) |->
          [level |-> chain[1].level,
           key |-> chain[1].items[i].key,
           raw |-> chain[1].items[i].raw]]
       \o Flatten(Tail(chain))

\* checks 1 to 3 on one override
Check(ek, it) ==
  IF it.key \notin DOMAIN ParameterTable(ek) THEN "UnknownParameter"
  ELSE IF ~validate(it.raw, ParameterTable(ek)[it.key]).ok THEN "InvalidValueType"
  ELSE IF it.key \in GlobalKeySet(ek) /\ it.level # "cluster"
  THEN "GlobalParameterOverride"
  ELSE "ok"

Failure(status, it) ==
  [status |-> status, key |-> it.key, scope |-> it.level, map |-> <<>>]

Success(map) == [status |-> "ok", key |-> "", scope |-> "", map |-> map]

\* the overrides from the i-th on applied to the running effective map
RECURSIVE Apply(_, _, _, _)
Apply(ek, its, i, running) ==
  IF i > Len(its) THEN Success(running)
  ELSE LET status == Check(ek, its[i])
       IN  IF status # "ok" THEN Failure(status, its[i])
           ELSE Apply(ek, its, i + 1,
                      (its[i].key :>
                         validate(its[i].raw, ParameterTable(ek)[its[i].key]).v)
                      @@ running)

\* resolveEffective(entityKind, overridesByScope) -> effectiveMap | Error
resolveEffective(ek, chain) == Apply(ek, Flatten(chain), 1, DefaultsTable(ek))

(***************************************************************************)
(* Inputs of the evaluator                                                 *)
(***************************************************************************)
MaxBrackets == 2
MaxDeviations == 2

\* the specification of scenario A
BaseSpec ==
  ("memory-size" :> 2048
   @@ "cpu-count" :> 2
   @@ "disk-count" :> 1
   @@ "disk-size" :> 10240
   @@ "nic-count" :> 1
   @@ "spindle-use" :> 1)

\* other values of each dimension: below, at and above the limits in use
AltValues ==
  ("memory-size" :> {64, 32768, 40000}
   @@ "cpu-count" :> {8, 16}
   @@ "disk-count" :> {0, 17}
   @@ "disk-size" :> {512, 1048577}
   @@ "nic-count" :> {9}
   @@ "spindle-use" :> {13})

DimValues(d) == {BaseSpec[d]} \cup AltValues[d]

\* the specifications that differ from BaseSpec in at most MaxDeviations dimensions
TestSpecs ==
  {s \in {("memory-size" :> a @@ "cpu-count" :> b @@ "disk-count" :> c
           @@ "disk-size" :> d @@ "nic-count" :> e @@ "spindle-use" :> f) :
            a \in DimValues("memory-size"), b \in DimValues("cpu-count"),
            c \in DimValues("disk-count"), d \in DimValues("disk-size"),
            e \in DimValues("nic-count"), f \in DimValues("spindle-use")} :
     Cardinality({x \in ISPECS_PARAMETERS : s[x] # BaseSpec[x]}) <= MaxDeviations}
  \cup {IPOLICY_DEFAULTS["std"]}

SmallBracket ==
  [min |-> ("memory-size" :> 64 @@ "cpu-count" :> 1 @@ "disk-count" :> 1
            @@ "disk-size" :> 512 @@ "nic-count" :> 1 @@ "spindle-use" :> 1),
   max |-> ("memory-size" :> 4096 @@ "cpu-count" :> 2 @@ "disk-count" :> 2
            @@ "disk-size" :> 524288 @@ "nic-count" :> 2 @@ "spindle-use" :> 2)]

LargeBracket ==
  [min |-> ("memory-size" :> 32768 @@ "cpu-count" :> 8 @@ "disk-count" :> 1
            @@ "disk-size" :> 1024 @@ "nic-count" :> 1 @@ "spindle-use" :> 1),
   max |-> ("memory-size" :> 65536 @@ "cpu-count" :> 32 @@ "disk-count" :> 16
            @@ "disk-size" :> 1048576 @@ "nic-count" :> 8 @@ "spindle-use" :> 12)]

TestBrackets == {ISPECS_MINMAX_DEFAULTS, SmallBracket, LargeBracket}

BracketSeqs == UNION {[1..n -> TestBrackets] : n \in 1..MaxBrackets}

\* The policies: a non-empty bracket sequence of which at least one bracket
\* holds std, a set of allowed templates, and the default ratio limits.
TestPolicies ==
  {("minmax" :> bs
    @@ "std" :> IPOLICY_DEFAULTS["std"]
    @@ "disk-templates" :> dts
    @@ "vcpu-ratio" :> IPOLICY_DEFAULTS["vcpu-ratio"]
    @@ "spindle-ratio" :> IPOLICY_DEFAULTS["spindle-ratio"]) :
      bs \in {q \in BracketSeqs :
                \E i \in 1..Len(q) : \A d \in ISPECS_PARAMETERS :
                   /\ q[i].min[d] <= IPOLICY_DEFAULTS["std"][d]
                   /\ IPOLICY_DEFAULTS["std"][d] <= q[i].max[d]},
      dts \in {IPOLICY_DEFAULTS["disk-templates"], {DT_PLAIN, DT_DRBD8}}}

TestTemplates == {DT_PLAIN, DT_DISKLESS}

Aggregates(nc, iv, ns, is) ==
  [supplied |-> TRUE, node_cpus |-> nc, inst_vcpus |-> iv,
   node_spindles |-> ns, inst_spindles |-> is]

TestAggregates ==
  {NoAggregates, Aggregates(8, 40, 4, 100), Aggregates(8, 32, 1, 33),
   Aggregates(2, 9, 2, 65)}

NoAdmission ==
  [decision |-> "None", reason |-> "None", bracket |-> 0, diagnostics |-> {}]

NoKind == [kind |-> "none", variant |-> "none"]
NoResult == [status |-> "none", key |-> "", scope |-> "", map |-> <<>>]

(***************************************************************************)
(* The evaluator applied to one call                                       *)
(***************************************************************************)
InitEval ==
  /\ pc = "start"
  /\ spec \in TestSpecs
  /\ template \in TestTemplates
  /\ policy \in TestPolicies
  /\ aggregates \in TestAggregates
  /\ admission = NoAdmission
  /\ findings = {}
  /\ entityKind = NoKind
  /\ overridesByScope = <<>>
  /\ effective = NoResult
  /\ query = "none"
  /\ answer = NoAnswer
  /\ rawText = <<>>
  /\ vtype = "none"
  /\ value = NoValue
  /\ DrbdIdle /\ LdsIdle /\ VersionIdle /\ ReloadIdle

Evaluate ==
  /\ pc = "start"
  /\ admission' = evaluate(spec, template, policy)
  /\ findings' = RatioFindings(aggregates, policy)
  /\ pc' = "done"
  /\ UNCHANGED <<spec, template, policy, aggregates,
                 entityKind, overridesByScope, effective, query, answer,
                 rawText, vtype, value,
                 drbdVars, ldsVars, versionVars, reloadVars>>

NextEval == Evaluate

SpecEval == InitEval /\ [][NextEval]_vars

(***************************************************************************)
(* Inputs of the resolver                                                  *)
(***************************************************************************)
MaxOverrides == 2

Override(key, raw) == [key |-> key, raw |-> raw]

\* the overrides tried for each entity kind: valid values, values of the
\* wrong type, global keys and undeclared keys
Candidates(ek) ==
  CASE ek.kind = "hypervisor" ->
         {Override("kernel_args", <<"r", "w">>),
          Override("acpi", <<"Y", "e", "s">>),
          Override("acpi", <<"m", "a", "y", "b", "e">>),
          Override("migration_port", <<"8", "0", "0", "3">>),
          Override("migration_port", <<"x", "1">>),
          Override("migration_bandwidth", <<"6", "4">>),
          Override("migration_mode", <<"l", "i", "v", "e">>),
          Override("xen_cmd", <<"x", "l">>),
          Override("no_such_key", <<"1">>)}
    [] ek.kind = "backend" ->
         {Override("maxmem", <<"1", "g">>),
          Override("maxmem", <<"-", "5">>),
          Override("vcpus", <<"2">>),
          Override("auto_balance", <<"n", "o">>),
          Override("memory", <<"1", "2", "8">>)}
    [] ek.kind = "node" ->
         {Override("exclusive_storage", <<"t", "r", "u", "e">>),
          Override("exclusive_storage", <<"m", "a", "y", "b", "e">>),
          Override("spindle_count", <<"4">>),
          Override("spindle_count", <<"4", ".", "5">>),
          Override("ovs_name", VALUE_NONE),
          Override("bogus", <<"x">>)}
    [] ek.kind = "nic" ->
         {Override("mode", <<"b", "r", "i", "d", "g", "e", "d">>),
          Override("mode", <<"r", "o", "u", "t", "e", "d">>),
          Override("link", <<"b", "r", "1">>),
          Override("vlan", VALUE_NONE),
          Override("mtu", <<"1", "5", "0", "0">>)}
    [] ek.kind = "disk" ->
         {Override("stripes", <<"2">>),
          Override("resync-rate", <<"f", "a", "s", "t">>),
          Override("pool", <<"r", "b", "d", "2">>),
          Override("size", <<"1">>)}

\* the item sequences of length n over a set of overrides, no key twice
ItemSeqs(cands, n) ==
  {q \in [1..n -> cands] : \A i, j \in 1..n : q[i].key = q[j].key => i = j}

\* the chain with the scopes of the levels in present, in the order of Levels
Chain(items, present) ==
  LET all == [i \in 1..Len(Levels) |-> [level |-> Levels[i], items |-> items[i]]]
  IN  SelectSeq(all, LAMBDA sc : sc.level \in present)

EntityKind(kind, variant) == [kind |-> kind, variant |-> variant]

TestKinds ==
  {EntityKind("hypervisor", hv) : hv \in HYPER_TYPES}
  \cup {EntityKind("backend", "none"), EntityKind("node", "none"),
        EntityKind("nic", "none")}
  \cup {EntityKind("disk", dt) : dt \in DISK_TEMPLATES}

(***************************************************************************)
(* The resolver applied to one call                                        *)
(***************************************************************************)
InitResolve ==
  /\ pc = "start"
  /\ spec = BaseSpec
  /\ template = DT_PLAIN
  /\ policy = IPOLICY_DEFAULTS
  /\ aggregates = NoAggregates
  /\ admission = NoAdmission
  /\ findings = {}
  /\ entityKind \in TestKinds
  /\ \E n1 \in 0..MaxOverrides :
       \E n2 \in 0..(MaxOverrides - n1) :
         \E n3 \in 0..(MaxOverrides - n1 - n2) :
           \E s1 \in ItemSeqs(Candidates(entityKind), n1) :
             \E s2 \in ItemSeqs(Candidates(entityKind), n2) :
               \E s3 \in ItemSeqs(Candidates(entityKind), n3) :
                 \E present \in SUBSET {Levels[i] : i \in 1..Len(Levels)} :
                   /\ \A i \in 1..Len(Levels) :
                        Len(<<s1, s2, s3>>[i]) > 0 => Levels[i] \in present
                   /\ overridesByScope = Chain(<<s1, s2, s3>>, present)
  /\ effective = NoResult
  /\ query = "none"
  /\ answer = NoAnswer
  /\ rawText = <<>>
  /\ vtype = "none"
  /\ value = NoValue
  /\ DrbdIdle /\ LdsIdle /\ VersionIdle /\ ReloadIdle

ResolveEffective ==
  /\ pc = "start"
  /\ effective' = resolveEffective(entityKind, overridesByScope)
  /\ pc' = "done"
  /\ UNCHANGED <<spec, template, policy, aggregates, admission, findings,
                 entityKind, overridesByScope, query, answer,
                 rawText, vtype, value,
                 drbdVars, ldsVars, versionVars, reloadVars>>

NextResolve == ResolveEffective

SpecResolve == InitResolve /\ [][NextResolve]_vars

(***************************************************************************)
(* Inputs of the validator                                                 *)
(***************************************************************************)
MaxMagnitude == 12

\* the magnitudes tried: the small ones and some of several digits
TestMagnitudes == 0..MaxMagnitude \cup {100, 1024, 2047}

\* the suffixes tried: none, the units in both cases, and letters of no unit
TestSuffixes ==
  {<<>>, <<"m">>, <<"g">>, <<"t">>, <<"M">>, <<"G">>, <<"T">>, <<"k">>, <<"b">>}

\* the signs tried
TestSigns == {<<>>, <<"-">>, <<"+">>}

\* texts that are no numbers
TestWords ==
  {<<>>, VALUE_NONE, VALUE_TRUE, VALUE_FALSE,
   <<"T", "r", "u", "e">>, <<"F", "A", "L", "S", "E">>,
   <<"y", "e", "s">>, <<"Y", "E", "S">>, <<"n", "o">>, <<"N", "o">>,
   <<"o", "n">>, <<"m", "a", "y", "b", "e">>, <<"N", "o", "n", "e">>,
   <<"n", "o", "n", "e", " ">>, <<"t", "r", "u", "e", "s">>, <<"y">>,
   <<"1", ".", "5">>, <<"1", ".", "5", "g">>, <<"1", "g", "b">>,
   <<"g">>, <<"-">>, <<"1", " ", "g">>, <<"0", "x", "1", "0">>}

TestRaws ==
  {sg \o ToDigits(n) \o sf :
     sg \in TestSigns, n \in TestMagnitudes, sf \in TestSuffixes}
  \cup TestWords

(***************************************************************************)
(* The validator applied to one raw text                                   *)
(***************************************************************************)
InitValidate ==
  /\ pc = "start"
  /\ spec = BaseSpec
  /\ template = DT_PLAIN
  /\ policy = IPOLICY_DEFAULTS
  /\ aggregates = NoAggregates
  /\ admission = NoAdmission
  /\ findings = {}
  /\ entityKind = NoKind
  /\ overridesByScope = <<>>
  /\ effective = NoResult
  /\ query = "none"
  /\ answer = NoAnswer
  /\ rawText \in TestRaws
  /\ vtype \in ENFORCEABLE_TYPES
  /\ value = NoValue
  /\ DrbdIdle /\ LdsIdle /\ VersionIdle /\ ReloadIdle

Validate ==
  /\ pc = "start"
  /\ value' = validate(rawText, vtype)
  /\ pc' = "done"
  /\ UNCHANGED <<spec, template, policy, aggregates, admission, findings,
                 entityKind, overridesByScope, effective, query, answer,
                 rawText, vtype,
                 drbdVars, ldsVars, versionVars, reloadVars>>

NextValidate == Validate

SpecValidate == InitValidate /\ [][NextValidate]_vars

(***************************************************************************)
(* One lookup of the disk template catalogue                               *)
(***************************************************************************)
InitCatalogue ==
  /\ pc = "start"
  /\ spec = BaseSpec
  /\ template \in DISK_TEMPLATES
  /\ policy = IPOLICY_DEFAULTS
  /\ aggregates = NoAggregates
  /\ admission = NoAdmission
  /\ findings = {}
  /\ entityKind = NoKind
  /\ overridesByScope = <<>>
  /\ effective = NoResult
  /\ query \in Queries
  /\ answer = NoAnswer
  /\ rawText = <<>>
  /\ vtype = "none"
  /\ value = NoValue
  /\ DrbdIdle /\ LdsIdle /\ VersionIdle /\ ReloadIdle

CatalogueLookup ==
  /\ pc = "start"
  /\ answer' = Lookup(query, template)
  /\ pc' = "done"
  /\ UNCHANGED <<spec, template, policy, aggregates, admission, findings,
                 entityKind, overridesByScope, effective, query,
                 rawText, vtype, value,
                 drbdVars, ldsVars, versionVars, reloadVars>>

NextCatalogue == CatalogueLookup

SpecCatalogue == InitCatalogue /\ [][NextCatalogue]_vars

(***************************************************************************)
(* Every part of the state the engine's operations use, left unused         *)
(***************************************************************************)
EngineIdle ==
  /\ spec = BaseSpec
  /\ template = DT_PLAIN
  /\ policy = IPOLICY_DEFAULTS
  /\ aggregates = NoAggregates
  /\ admission = NoAdmission
  /\ findings = {}
  /\ entityKind = NoKind
  /\ overridesByScope = <<>>
  /\ effective = NoResult
  /\ query = "storage_type"
  /\ answer = NoAnswer
  /\ rawText = <<>>
  /\ vtype = "none"
  /\ value = NoValue

engineVars == <<spec, template, policy, aggregates, admission, findings,
                entityKind, overridesByScope, effective, query, answer,
                rawText, vtype, value>>

(***************************************************************************)
(* DRBD barrier options: the letters asked to be disabled are accepted     *)
(* when, taken as a set, they are one of the valid combinations            *)
(***************************************************************************)
DRBD_B_NONE == "n"
DRBD_B_DISK_BARRIERS == "b"
DRBD_B_DISK_DRAIN == "d"
DRBD_B_DISK_FLUSH == "f"

\* mutant: the combination of drain and flush is missing
DRBD_VALID_BARRIER_OPT_noDrainFlush ==
  {{DRBD_B_NONE},
   {DRBD_B_DISK_BARRIERS},
   {DRBD_B_DISK_DRAIN},
   {DRBD_B_DISK_FLUSH},
   {DRBD_B_DISK_BARRIERS, DRBD_B_DISK_DRAIN},
   {DRBD_B_DISK_BARRIERS, DRBD_B_DISK_FLUSH},
   {DRBD_B_DISK_BARRIERS, DRBD_B_DISK_FLUSH, DRBD_B_DISK_DRAIN}}

DRBD_VALID_BARRIER_OPT ==
  {{DRBD_B_NONE},
   {DRBD_B_DISK_BARRIERS},
   {DRBD_B_DISK_DRAIN},
   {DRBD_B_DISK_FLUSH},
   {DRBD_B_DISK_DRAIN, DRBD_B_DISK_FLUSH},
   {DRBD_B_DISK_BARRIERS, DRBD_B_DISK_DRAIN},
   {DRBD_B_DISK_BARRIERS, DRBD_B_DISK_FLUSH},
   {DRBD_B_DISK_BARRIERS, DRBD_B_DISK_FLUSH, DRBD_B_DISK_DRAIN}}

MaxBarriers == 3

\* the letters a caller may write, one of them no barrier option at all
BarrierLetters ==
  {DRBD_B_NONE, DRBD_B_DISK_BARRIERS, DRBD_B_DISK_DRAIN, DRBD_B_DISK_FLUSH,
   "x"}

BarrierTexts ==
  UNION {[1..n -> BarrierLetters] : n \in 0..MaxBarriers}

LetterSet(text) == {text[i] : i \in 1..Len(text)}

InitBarrier ==
  /\ pc = "start"
  /\ EngineIdle
  /\ disabledBarriers \in BarrierTexts
  /\ barrierCheck = "none"
  /\ LdsIdle /\ VersionIdle /\ ReloadIdle

CheckBarrier ==
  /\ pc = "start"
  /\ barrierCheck' = IF LetterSet(disabledBarriers) \in DRBD_VALID_BARRIER_OPT
                     THEN "valid" ELSE "invalid"
  /\ pc' = "done"
  /\ UNCHANGED <<engineVars, disabledBarriers, ldsVars, versionVars,
                 reloadVars>>

NextBarrier == CheckBarrier

SpecBarrier == InitBarrier /\ [][NextBarrier]_vars

(***************************************************************************)
(* Local disk status: the status of a device with children is the maximum  *)
(* of the statuses of the children                                         *)
(***************************************************************************)
LDS_OKAY == 1
LDS_UNKNOWN == 2
\* mutant: the code of the faulty status is below the others
LDS_FAULTY_asZero == LDS_OKAY - 1
LDS_FAULTY == 3

LDS_NAMES ==
  (LDS_OKAY :> "ok" @@ LDS_UNKNOWN :> "unknown" @@ LDS_FAULTY :> "faulty")

MaxChildren == 4

StatusCodes == {LDS_OKAY, LDS_UNKNOWN, LDS_FAULTY}

StatusSeqs == UNION {[1..n -> StatusCodes] : n \in 1..MaxChildren}

Max2(a, b) == IF a < b THEN b ELSE a

RECURSIVE MaxStatus(_)
MaxStatus(sts) ==
  IF Len(sts) = 1 THEN sts[1]
  ELSE Max2(sts[1], MaxStatus(Tail(sts)))

InitStatus ==
  /\ pc = "start"
  /\ EngineIdle
  /\ DrbdIdle
  /\ childStatuses \in StatusSeqs
  /\ worstStatus = 0
  /\ VersionIdle /\ ReloadIdle

CombineStatus ==
  /\ pc = "start"
  /\ worstStatus' = MaxStatus(childStatuses)
  /\ pc' = "done"
  /\ UNCHANGED <<engineVars, drbdVars, childStatuses, versionVars,
                 reloadVars>>

NextStatus == CombineStatus

SpecStatus == InitStatus /\ [][NextStatus]_vars

(***************************************************************************)
(* Version numbers.  The module is Python 2 (it writes octal literals such *)
(* as 0775): an integer beyond the machine integer is a long, and a long   *)
(* is no instance of int.  The machine integer modelled is that of a build *)
(* with a 32-bit C long; a 64-bit build behaves alike beyond 2^63 - 1.     *)
(***************************************************************************)
SysMaxInt == 2147483647

IntObj(n) == [type |-> "int", n |-> n]
\* a value beyond the machine integer; its magnitude is not tracked
LongObj == [type |-> "long", n |-> 0]
NoInt == [type |-> "none", n |-> 0]

Triple(major, minor, revision) ==
  [ok |-> TRUE, major |-> major, minor |-> minor, revision |-> revision]
AssertionError == [ok |-> FALSE, major |-> 0, minor |-> 0, revision |-> 0]
NoTriple == [ok |-> FALSE, major |-> -1, minor |-> -1, revision |-> -1]

\* the largest major whose millionfold is a machine integer
MaxIntMajor == SysMaxInt \div 1000000

\* 1000000 * major + 10000 * minor + revision is a machine integer
\* (compared after taking 1000000 * MaxIntMajor from both sides)
FitsInt(major, minor, revision) ==
  /\ major <= MaxIntMajor + 1
  /\ 1000000 * (major - MaxIntMajor) + 10000 * minor + revision
       <= SysMaxInt - 1000000 * MaxIntMajor

BuildVersion(major, minor, revision) ==
  IF FitsInt(major, minor, revision)
  THEN IntObj(1000000 * major + 10000 * minor + 1 * revision)
  ELSE LongObj

\* mutant: the minor is split off by the thousand
SplitVersion_byThousand(version) ==
  IF version.type # "int" THEN AssertionError
  ELSE LET major == version.n \div 1000000
           remainder == version.n % 1000000
           minor == remainder \div 1000
           revision == remainder % 1000
       IN Triple(major, minor, revision)

SplitVersion(version) ==
  IF version.type # "int" THEN AssertionError
  ELSE LET major == version.n \div 1000000
           remainder == version.n % 1000000
           minor == remainder \div 10000
           revision == remainder % 10000
       IN Triple(major, minor, revision)

\* mutant: the configuration revision is 1
CONFIG_REVISION_one == 0 + 1
CONFIG_REVISION == 0

\* CONFIG_MAJOR and CONFIG_MINOR are set when the package is configured
CONFIG_VERSION(CONFIG_MAJOR, CONFIG_MINOR) ==
  BuildVersion(CONFIG_MAJOR, CONFIG_MINOR, CONFIG_REVISION)
PROTOCOL_VERSION(CONFIG_MAJOR, CONFIG_MINOR) ==
  BuildVersion(CONFIG_MAJOR, CONFIG_MINOR, 0)
LUXI_VERSION(CONFIG_MAJOR, CONFIG_MINOR) ==
  CONFIG_VERSION(CONFIG_MAJOR, CONFIG_MINOR)

MaxMajor == 1

TestMajors == (0..MaxMajor) \cup {MaxIntMajor, MaxIntMajor + 1}
TestMinors == {-1, 0, 1, 99, 100}
TestRevisions == {-1, 0, 9999, 10000}
TestTriples ==
  {Triple(M, m, r) : M \in TestMajors, m \in TestMinors, r \in TestRevisions}
InRange(t) ==
  /\ 0 <= t.minor /\ t.minor <= 99
  /\ 0 <= t.revision /\ t.revision <= 9999
InRangeTriples == {t \in TestTriples : InRange(t)}
TestVersions == {0, 9999, 2000000, 2101234, SysMaxInt}

NoInts ==
  [a |-> NoInt, b |-> NoInt, config |-> NoInt, protocol |-> NoInt,
   luxi |-> NoInt, rebuilt |-> NoInt]
NoSplits == [a |-> NoTriple, b |-> NoTriple, v |-> NoTriple]

InitVersion ==
  /\ pc = "start"
  /\ EngineIdle
  /\ DrbdIdle /\ LdsIdle
  /\ versionArgs \in [a : TestTriples, b : InRangeTriples, v : TestVersions]
  /\ versionInts = NoInts
  /\ versionSplit = NoSplits
  /\ ReloadIdle

BuildVersions ==
  /\ pc = "start"
  /\ LET a == versionArgs.a
         b == versionArgs.b
     IN versionInts' =
          [versionInts EXCEPT
             !.a = BuildVersion(a.major, a.minor, a.revision),
             !.b = BuildVersion(b.major, b.minor, b.revision),
             !.config = CONFIG_VERSION(a.major, a.minor),
             !.protocol = PROTOCOL_VERSION(a.major, a.minor),
             !.luxi = LUXI_VERSION(a.major, a.minor)]
  /\ pc' = "built"
  /\ UNCHANGED <<engineVars, drbdVars, ldsVars, versionArgs, versionSplit,
                 reloadVars>>

SplitVersions ==
  /\ pc = "built"
  /\ versionSplit' = [a |-> SplitVersion(versionInts.a),
                      b |-> SplitVersion(versionInts.b),
                      v |-> SplitVersion(IntObj(versionArgs.v))]
  /\ pc' = "split"
  /\ UNCHANGED <<engineVars, drbdVars, ldsVars, versionArgs, versionInts,
                 reloadVars>>

RebuildVersion ==
  /\ pc = "split"
  /\ LET t == versionSplit.v
     IN versionInts' =
          [versionInts EXCEPT
             !.rebuilt = BuildVersion(t.major, t.minor, t.revision)]
  /\ pc' = "done"
  /\ UNCHANGED <<engineVars, drbdVars, ldsVars, versionArgs, versionSplit,
                 reloadVars>>

NextVersion == BuildVersions \/ SplitVersions \/ RebuildVersion

SpecVersion == InitVersion /\ [][NextVersion]_vars

(***************************************************************************)
(* Properties of the evaluator                                             *)
(***************************************************************************)
MaxWiden == 2

\* the brackets of the policy, and the indices of those that hold the spec
Brackets == policy["minmax"]

Holding ==
  {i \in 1..Len(Brackets) : \A d \in ISPECS_PARAMETERS :
     Brackets[i].min[d] <= spec[d] /\ spec[d] <= Brackets[i].max[d]}

\* the default bracket as the specification states it
StatedDefaultMin ==
  ("memory-size" :> 128 @@ "cpu-count" :> 1 @@ "disk-count" :> 1
   @@ "disk-size" :> 1024 @@ "nic-count" :> 1 @@ "spindle-use" :> 1)

StatedDefaultMax ==
  ("memory-size" :> 32768 @@ "cpu-count" :> 8 @@ "disk-count" :> 16
   @@ "disk-size" :> 1048576 @@ "nic-count" :> 8 @@ "spindle-use" :> 12)

InStatedDefault ==
  \A d \in ISPECS_PARAMETERS :
    StatedDefaultMin[d] <= spec[d] /\ spec[d] <= StatedDefaultMax[d]

\* C1: with an allowed template, evaluate returns Accepted if and only if some
\* bracket of the policy holds the spec in all six dimensions; a spec inside
\* the default bracket (min 128,1,1,1024,1,1; max 32768,8,16,1048576,8,12) is
\* Accepted under the default policy.
C1_AcceptedIffSomeBracketHolds ==
  (pc = "done" /\ template \in policy["disk-templates"]) =>
    /\ (admission.decision = "Accepted") <=> (Holding # {})
    /\ (policy = IPOLICY_DEFAULTS /\ InStatedDefault) =>
         admission.decision = "Accepted"

C1_Witness ==
  /\ pc = "done"
  /\ policy = IPOLICY_DEFAULTS
  /\ spec = BaseSpec
  /\ admission.decision = "Accepted"

\* C2: with a template that the policy does not allow, evaluate returns
\* Rejected(DisallowedDiskTemplate) whatever the spec and the brackets are,
\* and never a bracket-based result.
C2_DisallowedTemplateRejected ==
  (pc = "done" /\ template \notin policy["disk-templates"]) =>
    /\ admission.decision = "Rejected"
    /\ admission.reason = "DisallowedDiskTemplate"
    /\ admission.bracket = 0
    /\ admission.diagnostics = {}

C2_Witness ==
  /\ pc = "done"
  /\ template \notin policy["disk-templates"]
  /\ Holding # {}
  /\ admission.reason = "DisallowedDiskTemplate"

\* the bracket sequences that are permutations of seq
Reorderings(seq) ==
  {[i \in 1..Len(seq) |-> seq[p[i]]] :
     p \in {q \in [1..Len(seq) -> 1..Len(seq)] :
              \A i, j \in 1..Len(seq) : q[i] = q[j] => i = j}}

\* C3: the accept/reject outcome is the same for every permutation of the
\* brackets, and the satisfying bracket reported on acceptance is the
\* lowest-index bracket that holds the spec.
C3_OrderIndependentOutcome ==
  (pc = "done") =>
    /\ \A q \in Reorderings(Brackets) :
         evaluate(spec, template,
                  [policy EXCEPT !["minmax"] = q]).decision = admission.decision
    /\ (admission.decision = "Accepted") =>
         /\ admission.bracket \in Holding
         /\ \A j \in Holding : admission.bracket <= j

C3_Witness ==
  /\ pc = "done"
  /\ admission.decision = "Accepted"
  /\ admission.bracket = 2
  /\ Brackets[1] # Brackets[2]

\* bracket b with the maximum of dimension d raised by k
WidenMax(b, d, k) == [b EXCEPT !.max[d] = @ + k]

\* bracket b with the minimum of dimension d lowered by k (not below 0)
LowerMin(b, d, k) == [b EXCEPT !.min[d] = Max0(@ - k)]

\* C4: a spec that matches a bracket still matches it after the maximum of
\* any dimension is raised or the minimum of any dimension is lowered, and
\* an Accepted spec stays Accepted under the policy so changed.
C4_WideningKeepsMatch ==
  (pc = "done") =>
    \A i \in 1..Len(Brackets) : \A d \in ISPECS_PARAMETERS : \A k \in 0..MaxWiden :
      /\ Matches(spec, Brackets[i]) =>
           /\ Matches(spec, WidenMax(Brackets[i], d, k))
           /\ Matches(spec, LowerMin(Brackets[i], d, k))
      /\ (admission.decision = "Accepted") =>
           /\ evaluate(spec, template,
                [policy EXCEPT !["minmax"][i] = WidenMax(@, d, k)]).decision = "Accepted"
           /\ evaluate(spec, template,
                [policy EXCEPT !["minmax"][i] = LowerMin(@, d, k)]).decision = "Accepted"

C4_Witness ==
  /\ pc = "done"
  /\ admission.decision = "Accepted"
  /\ \E d \in ISPECS_PARAMETERS : spec[d] = Brackets[admission.bracket].max[d]
  /\ \E d \in ISPECS_PARAMETERS : spec[d] = Brackets[admission.bracket].min[d]

\* the spec of scenario B: scenario A with 16 cpus
ScenarioB == [BaseSpec EXCEPT !["cpu-count"] = 16]

\* C5: when no bracket matches, the result is Rejected(NoMatchingBracket) and
\* its diagnostics hold, relative to the closest bracket c, "too high by
\* spec[d]-c.max[d]" exactly for the dimensions above c.max, "too low by
\* c.min[d]-spec[d]" exactly for those below c.min, and nothing else; 16 cpus
\* against the default bracket give the one finding cpu-count too high by 8.
C5_DiagnosticsOfClosest ==
  (pc = "done" /\ template \in policy["disk-templates"] /\ Holding = {}) =>
    /\ admission.decision = "Rejected"
    /\ admission.reason = "NoMatchingBracket"
    /\ admission.bracket \in 1..Len(Brackets)
    /\ LET c == Brackets[admission.bracket]
       IN  /\ \A d \in ISPECS_PARAMETERS :
                /\ (spec[d] > c.max[d]) <=>
                     ([dim |-> d, dir |-> "too high", by |-> spec[d] - c.max[d]]
                        \in admission.diagnostics)
                /\ (spec[d] < c.min[d]) <=>
                     ([dim |-> d, dir |-> "too low", by |-> c.min[d] - spec[d]]
                        \in admission.diagnostics)
           /\ \A x \in admission.diagnostics :
                \/ x.dir = "too high" /\ spec[x.dim] > c.max[x.dim]
                     /\ x.by = spec[x.dim] - c.max[x.dim]
                \/ x.dir = "too low" /\ spec[x.dim] < c.min[x.dim]
                     /\ x.by = c.min[x.dim] - spec[x.dim]
    /\ (policy = IPOLICY_DEFAULTS /\ spec = ScenarioB) =>
         admission.diagnostics = {[dim |-> "cpu-count", dir |-> "too high", by |-> 8]}

C5_Witness ==
  /\ pc = "done"
  /\ policy = IPOLICY_DEFAULTS
  /\ spec = ScenarioB
  /\ admission.reason = "NoMatchingBracket"
  /\ admission.diagnostics = {[dim |-> "cpu-count", dir |-> "too high", by |-> 8]}

\* C6: when no bracket matches, the score of the bracket chosen as closest is
\* at most the score of every bracket of the policy; and a bracket has score
\* 0 if and only if it holds the spec.
C6_ClosestHasLeastScore ==
  (pc = "done") =>
    /\ (admission.reason = "NoMatchingBracket") =>
         \A j \in 1..Len(Brackets) :
           Scores(spec, Brackets)[admission.bracket] <= Scores(spec, Brackets)[j]
    /\ \A i \in 1..Len(Brackets) :
         (Scores(spec, Brackets)[i] = 0) <=> (i \in Holding)

C6_Witness ==
  /\ pc = "done"
  /\ admission.reason = "NoMatchingBracket"
  /\ admission.bracket = 1
  /\ Len(Brackets) = 2
  /\ Scores(spec, Brackets)[1] < Scores(spec, Brackets)[2]

\* C7: with aggregates supplied, a RatioExceeded finding for vcpu (spindle) is
\* emitted exactly when the vcpu (spindle) sum divided by the capacity exceeds
\* the policy's limit; the findings never change the bracket-based decision,
\* which is the one the brackets and the template alone give; capacity 8
\* with vcpu sum 40 under the default ratio 4.0 gives the finding.
C7_RatioFindingsAdvisory ==
  (pc = "done") =>
    /\ aggregates.supplied =>
         /\ (\E f \in findings : f.dimension = "vcpu") <=>
              (aggregates.inst_vcpus * policy["vcpu-ratio"].den
                 > policy["vcpu-ratio"].num * aggregates.node_cpus)
         /\ (\E f \in findings : f.dimension = "spindle") <=>
              (aggregates.inst_spindles * policy["spindle-ratio"].den
                 > policy["spindle-ratio"].num * aggregates.node_spindles)
    /\ \A f \in findings : f.dimension \in {"vcpu", "spindle"}
    /\ (~aggregates.supplied) => findings = {}
    /\ (admission.decision = "Accepted") <=>
         (template \in policy["disk-templates"] /\ Holding # {})
    /\ (admission.reason = "DisallowedDiskTemplate") <=>
         (template \notin policy["disk-templates"])
    /\ (admission.reason = "NoMatchingBracket") <=>
         (template \in policy["disk-templates"] /\ Holding = {})
    /\ (aggregates.supplied /\ aggregates.node_cpus = 8 /\ aggregates.inst_vcpus = 40
        /\ policy = IPOLICY_DEFAULTS) =>
         \E f \in findings : f.dimension = "vcpu"

C7_Witness ==
  /\ pc = "done"
  /\ policy = IPOLICY_DEFAULTS
  /\ aggregates.supplied /\ aggregates.node_cpus = 8 /\ aggregates.inst_vcpus = 40
  /\ admission.decision = "Accepted"
  /\ \E f \in findings : f.dimension = "vcpu"

\* a bracket gives min and max on exactly the six dimensions, min <= max
BracketWellFormed(b) ==
  /\ DOMAIN b.min = DOMAIN ISPECS_PARAMETER_TYPES
  /\ DOMAIN b.max = DOMAIN ISPECS_PARAMETER_TYPES
  /\ \A d \in DOMAIN ISPECS_PARAMETER_TYPES : b.min[d] <= b.max[d]

\* C18: every bracket of an instance policy has min[d] <= max[d] on each of
\* the six dimensions, and its min and max define exactly the six keys of
\* ISPECS_PARAMETER_TYPES; the compiled-in ISPECS_MINMAX_DEFAULTS does so.
C18_BracketsWellFormed ==
  /\ Cardinality(DOMAIN ISPECS_PARAMETER_TYPES) = 6
  /\ BracketWellFormed(ISPECS_MINMAX_DEFAULTS)
  /\ \A i \in 1..Len(IPOLICY_DEFAULTS["minmax"]) :
       BracketWellFormed(IPOLICY_DEFAULTS["minmax"][i])
  /\ \A i \in 1..Len(Brackets) : BracketWellFormed(Brackets[i])

C18_Witness ==
  /\ pc = "done"
  /\ Brackets = <<ISPECS_MINMAX_DEFAULTS>>
  /\ spec = ISPECS_MINMAX_DEFAULTS.min
  /\ template \in policy["disk-templates"]
  /\ admission.decision = "Accepted"

\* a policy has at least one bracket, positive ratio limits and a std that
\* some bracket holds
PolicyWellFormed(pol) ==
  /\ Len(pol["minmax"]) >= 1
  /\ pol["vcpu-ratio"].num > 0 /\ pol["vcpu-ratio"].den > 0
  /\ pol["spindle-ratio"].num > 0 /\ pol["spindle-ratio"].den > 0
  /\ \E i \in 1..Len(pol["minmax"]) :
       \A d \in DOMAIN ISPECS_PARAMETER_TYPES :
         /\ pol["minmax"][i].min[d] <= pol["std"][d]
         /\ pol["std"][d] <= pol["minmax"][i].max[d]

\* C19: every instance policy has a non-empty list of brackets, positive
\* ratio limits and a std that matches at least one bracket, so evaluating
\* std under the policy is Accepted for every allowed template; this holds
\* for IPOLICY_DEFAULTS.
C19_StdIsAccepted ==
  /\ PolicyWellFormed(IPOLICY_DEFAULTS)
  /\ PolicyWellFormed(policy)
  /\ (pc = "done" /\ spec = policy["std"]
      /\ template \in policy["disk-templates"]) =>
       admission.decision = "Accepted"
  /\ (pc = "done" /\ policy = IPOLICY_DEFAULTS) =>
       \A t \in IPOLICY_DEFAULTS["disk-templates"] :
         evaluate(IPOLICY_DEFAULTS["std"], t, IPOLICY_DEFAULTS).decision
           = "Accepted"

C19_Witness ==
  /\ pc = "done"
  /\ policy = IPOLICY_DEFAULTS
  /\ spec = IPOLICY_DEFAULTS["std"]
  /\ template = DT_PLAIN
  /\ admission.decision = "Accepted"
  /\ admission.bracket = 1

(***************************************************************************)
(* Properties of the resolver                                              *)
(***************************************************************************)
\* the overrides of the call in processing order
Items == Flatten(overridesByScope)

\* the parameter table of each entity kind, by its name in the catalogue
StatedTable ==
  CASE entityKind.kind = "hypervisor" -> HVS_PARAMETER_TYPES
    [] entityKind.kind = "backend" -> BES_PARAMETER_TYPES
    [] entityKind.kind = "node" -> NDS_PARAMETER_TYPES
    [] entityKind.kind = "nic" -> NICS_PARAMETER_TYPES
    [] entityKind.kind = "disk" -> DISK_DT_TYPES

\* the global keys of each entity kind, as the specification lists them
StatedGlobals ==
  CASE entityKind.kind = "hypervisor" ->
         {"migration_port", "migration_bandwidth", "migration_mode", "xen_cmd"}
    [] entityKind.kind = "node" -> {"exclusive_storage"}
    [] OTHER -> {}

Undeclared(it) == it.key \notin DOMAIN StatedTable

BadType(it) == ~Undeclared(it) /\ ~validate(it.raw, StatedTable[it.key]).ok

GlobalNarrow(it) == it.key \in StatedGlobals /\ it.level # "cluster"

Offends(it) == Undeclared(it) \/ BadType(it) \/ GlobalNarrow(it)

\* the first override, in processing order, that fails a check (0 when none)
FirstOffender ==
  LET bad == {i \in 1..Len(Items) : Offends(Items[i])}
  IN  IF bad = {} THEN 0 ELSE CHOOSE i \in bad : \A j \in bad : i <= j

\* the chain of scenario D
ScenarioD ==
  <<[level |-> "cluster",
     items |-> <<Override("mode", <<"b", "r", "i", "d", "g", "e", "d">>)>>],
    [level |-> "instance",
     items |-> <<Override("mode", <<"r", "o", "u", "t", "e", "d">>)>>]>>

\* C8: on success each key has the value of the highest-precedence scope that
\* contains it, and the compiled-in default when no scope contains it; the
\* NIC chain [cluster{mode: bridged}, instance{mode: routed}] gives routed.
C8_HighestPrecedenceWins ==
  (pc = "done") =>
    /\ (effective.status = "ok") =>
         \A key \in DOMAIN StatedTable :
           LET at == {i \in 1..Len(Items) : Items[i].key = key}
               last == CHOOSE i \in at : \A j \in at : j <= i
           IN  IF at # {}
               THEN /\ key \in DOMAIN effective.map
                    /\ effective.map[key]
                         = validate(Items[last].raw, StatedTable[key]).v
               ELSE key \in DOMAIN DefaultsTable(entityKind) =>
                      /\ key \in DOMAIN effective.map
                      /\ effective.map[key] = DefaultsTable(entityKind)[key]
    /\ (entityKind.kind = "nic" /\ overridesByScope = ScenarioD) =>
         /\ effective.status = "ok"
         /\ effective.map["mode"] = StrV(<<"r", "o", "u", "t", "e", "d">>)
    /\ (entityKind.kind = "nic" /\ overridesByScope = <<>>) =>
         /\ effective.status = "ok"
         /\ effective.map["mode"] = StrV(<<"b", "r", "i", "d", "g", "e", "d">>)

C8_Witness ==
  /\ pc = "done"
  /\ entityKind.kind = "nic"
  /\ overridesByScope = ScenarioD
  /\ effective.status = "ok"
  /\ effective.map["mode"] = StrV(<<"r", "o", "u", "t", "e", "d">>)

\* C9 as stated: GlobalParameterOverride is returned whenever a scope narrower
\* than cluster level contains a global key, and never for an override at
\* cluster level or for a key outside the global keys.
C9_AsStated ==
  (pc = "done") =>
    /\ (\E i \in 1..Len(Items) : GlobalNarrow(Items[i])) =>
         effective.status = "GlobalParameterOverride"
    /\ (effective.status = "GlobalParameterOverride") =>
         effective.key \in StatedGlobals /\ effective.scope # "cluster"

\* C9 (amended): a global key in a scope narrower than cluster level always
\* makes the call fail; the error is GlobalParameterOverride when that
\* override is the first one in processing order to fail a check and its
\* value is of the declared type; GlobalParameterOverride is never returned
\* for an override at cluster level or for a key outside the global keys.
C9_GlobalOverrideRejected ==
  (pc = "done") =>
    /\ (\E i \in 1..Len(Items) : GlobalNarrow(Items[i])) =>
         effective.status \notin {"ok", "none"}
    /\ (FirstOffender # 0 /\ GlobalNarrow(Items[FirstOffender])
        /\ ~BadType(Items[FirstOffender])) =>
         /\ effective.status = "GlobalParameterOverride"
         /\ effective.key = Items[FirstOffender].key
         /\ effective.scope = Items[FirstOffender].level
    /\ (effective.status = "GlobalParameterOverride") =>
         /\ effective.key \in StatedGlobals
         /\ effective.scope # "cluster"
         /\ \E i \in 1..Len(Items) :
              Items[i].key = effective.key /\ Items[i].level = effective.scope

C9_Witness ==
  /\ pc = "done"
  /\ effective.status = "GlobalParameterOverride"
  /\ effective.key = "xen_cmd"
  /\ effective.scope = "instance"
  /\ \E i \in 1..Len(Items) : Items[i].level = "cluster" /\ Items[i].key = "xen_cmd"

\* C10 as stated: UnknownParameter is returned whenever any scope contains a
\* key that the parameter table does not declare, and no map is returned.
C10_AsStated ==
  (pc = "done" /\ \E i \in 1..Len(Items) : Undeclared(Items[i])) =>
    effective.status = "UnknownParameter" /\ effective.map = <<>>

\* C10 (amended): an undeclared key in any scope always makes the call fail
\* with no effective map; the error is UnknownParameter for that key when the
\* override is the first one in processing order to fail a check.
C10_UnknownKeyRejected ==
  (pc = "done") =>
    /\ (\E i \in 1..Len(Items) : Undeclared(Items[i])) =>
         effective.status \notin {"ok", "none"} /\ effective.map = <<>>
    /\ (FirstOffender # 0 /\ Undeclared(Items[FirstOffender])) =>
         /\ effective.status = "UnknownParameter"
         /\ effective.key = Items[FirstOffender].key
         /\ effective.map = <<>>

C10_Witness ==
  /\ pc = "done"
  /\ entityKind.kind = "backend"
  /\ effective.status = "UnknownParameter"
  /\ effective.key = "memory"
  /\ Len(Items) = 2
  /\ Items[2].key = "memory"

\* the keys overridden somewhere in the chain
OverriddenKeys == {Items[i].key : i \in 1..Len(Items)}

\* the entity kinds whose defaults table has a default for every declared key
FullyDefaultedKinds == {"backend", "node", "nic"}

\* C11 as stated: every successful result is a map whose domain is exactly
\* the set of keys the entity kind's parameter table declares.
C11_AsStated ==
  (pc = "done" /\ effective.status = "ok") =>
    DOMAIN effective.map = DOMAIN StatedTable

\* C11 (amended): every successful result is a map whose domain is the keys
\* of the variant's defaults table together with the overridden keys, all of
\* them declared; it is the whole declared key set for the backend, node and
\* NIC kinds, and the call with no overrides returns the defaults table.
C11_DomainIsDefaultsAndOverrides ==
  (pc = "done" /\ effective.status = "ok") =>
    /\ DOMAIN effective.map
         = DOMAIN DefaultsTable(entityKind) \cup OverriddenKeys
    /\ DOMAIN effective.map \subseteq DOMAIN StatedTable
    /\ (entityKind.kind \in FullyDefaultedKinds) =>
         DOMAIN effective.map = DOMAIN StatedTable
    /\ (overridesByScope = <<>>) => effective.map = DefaultsTable(entityKind)

C11_Witness ==
  /\ pc = "done"
  /\ entityKind = EntityKind("hypervisor", HT_FAKE)
  /\ overridesByScope = <<>>
  /\ effective.status = "ok"
  /\ DOMAIN effective.map = {"migration_mode"}
  /\ DOMAIN effective.map # DOMAIN HVS_PARAMETER_TYPES

\* the keys of the defaults table d are keys of the parameter table t
KeysDeclared(d, t) == DOMAIN d \subseteq DOMAIN t

\* C12: the keys of every defaults table are keys of the corresponding
\* parameter table: each HVC_DEFAULTS[hv] within HVS_PARAMETER_TYPES,
\* BEC_DEFAULTS within BES_PARAMETER_TYPES, NDC_DEFAULTS within
\* NDS_PARAMETER_TYPES, NICC_DEFAULTS within NICS_PARAMETER_TYPES, each
\* DISK_LD_DEFAULTS[dt] within DISK_LD_TYPES and each DISK_DT_DEFAULTS[dt]
\* within DISK_DT_TYPES; so a call without overrides returns declared keys only.
C12_DefaultsKeysDeclared ==
  /\ \A hv \in DOMAIN HVC_DEFAULTS :
       KeysDeclared(HVC_DEFAULTS[hv], HVS_PARAMETER_TYPES)
  /\ KeysDeclared(BEC_DEFAULTS, BES_PARAMETER_TYPES)
  /\ KeysDeclared(NDC_DEFAULTS, NDS_PARAMETER_TYPES)
  /\ KeysDeclared(NICC_DEFAULTS, NICS_PARAMETER_TYPES)
  /\ \A dt \in DOMAIN DISK_LD_DEFAULTS :
       KeysDeclared(DISK_LD_DEFAULTS[dt], DISK_LD_TYPES)
  /\ \A dt \in DOMAIN DISK_DT_DEFAULTS :
       KeysDeclared(DISK_DT_DEFAULTS[dt], DISK_DT_TYPES)
  /\ (pc = "done" /\ overridesByScope = <<>>) =>
       /\ effective.status = "ok"
       /\ DOMAIN effective.map \subseteq DOMAIN StatedTable

C12_Witness ==
  /\ pc = "done"
  /\ entityKind = EntityKind("hypervisor", HT_KVM)
  /\ overridesByScope = <<>>
  /\ effective.status = "ok"
  /\ "kernel_path" \in DOMAIN effective.map
  /\ DOMAIN effective.map \subseteq DOMAIN HVS_PARAMETER_TYPES

\* every default of the table d satisfies TypeValidator for the type the
\* table t declares its key with
DefaultsTyped(d, t) ==
  \A key \in DOMAIN d : key \in DOMAIN t /\ Satisfies(d[key], t[key])

\* C13: every compiled-in default passes TypeValidator for the type its key
\* is declared with (Bool keys a boolean, Int and Size keys a non-negative
\* integer, String keys text, MaybeString keys text or the absent value), in
\* every entry of HVC_DEFAULTS, BEC_DEFAULTS, NDC_DEFAULTS, NICC_DEFAULTS
\* (the NIC vlan default included), DISK_LD_DEFAULTS and DISK_DT_DEFAULTS.
C13_AsStated ==
  (pc = "done" /\ effective.status = "ok") =>
    /\ DefaultsTyped(DefaultsTable(entityKind), StatedTable)
    /\ (entityKind.kind = "disk"
        /\ entityKind.variant \in DOMAIN DISK_LD_DEFAULTS) =>
         DefaultsTyped(DISK_LD_DEFAULTS[entityKind.variant], DISK_LD_TYPES)
    /\ \A key \in DOMAIN effective.map \ OverriddenKeys :
         Satisfies(effective.map[key], StatedTable[key])

\* C14: every global key is a declared key: HVC_GLOBALS lies within the keys
\* of HVS_PARAMETER_TYPES and NDC_GLOBALS within those of
\* NDS_PARAMETER_TYPES; so an override rejected as GlobalParameterOverride
\* names a declared key.
C14_GlobalKeysDeclared ==
  /\ HVC_GLOBALS \subseteq DOMAIN HVS_PARAMETER_TYPES
  /\ NDC_GLOBALS \subseteq DOMAIN NDS_PARAMETER_TYPES
  /\ GlobalKeySet(entityKind) \subseteq DOMAIN StatedTable
  /\ (pc = "done" /\ effective.status = "GlobalParameterOverride") =>
       /\ effective.key \in GlobalKeySet(entityKind)
       /\ effective.key \in DOMAIN StatedTable

C14_Witness ==
  /\ pc = "done"
  /\ entityKind.kind = "node"
  /\ effective.status = "GlobalParameterOverride"
  /\ effective.key = "exclusive_storage"
  /\ effective.key \in NDC_GLOBALS \cap DOMAIN NDS_PARAMETER_TYPES

(***************************************************************************)
(* Properties of the disk template catalogue                               *)
(***************************************************************************)
\* the capability sets of the catalogue
CapabilitySets ==
  {DTS_GROWABLE, DTS_MAY_ADOPT, DTS_MUST_ADOPT, DTS_INT_MIRROR, DTS_EXT_MIRROR,
   DTS_FILEBASED, DTS_COPYABLE, DTS_EXCL_STORAGE, DTS_NO_FREE_SPACE_CHECK}

\* C15: every disk template that must use adoption may use adoption:
\* DTS_MUST_ADOPT is a subset of DTS_MAY_ADOPT, and the two lookups agree.
C15_MustAdoptImpliesMayAdopt ==
  /\ DTS_MUST_ADOPT \subseteq DTS_MAY_ADOPT
  /\ (pc = "done" /\ query = "MayAdopt" /\ template \in DTS_MUST_ADOPT) =>
       answer = TruthAnswer(TRUE)
  /\ (pc = "done" /\ query = "MustAdopt" /\ answer = TruthAnswer(TRUE)) =>
       template \in DTS_MAY_ADOPT

C15_Witness ==
  /\ pc = "done"
  /\ template = DT_BLOCK
  /\ template \in DTS_MUST_ADOPT
  /\ query = "MayAdopt"
  /\ answer = TruthAnswer(TRUE)

\* C16: no disk template is both internally and externally mirrored, and
\* DTS_MIRRORED is exactly the union of the two sets.
C16_MirrorSetsDisjoint ==
  /\ DTS_INT_MIRROR \cap DTS_EXT_MIRROR = {}
  /\ DTS_MIRRORED = DTS_INT_MIRROR \cup DTS_EXT_MIRROR
  /\ (pc = "done" /\ query = "IsInternallyMirrored"
      /\ answer = TruthAnswer(TRUE)) =>
       template \in DTS_MIRRORED \ DTS_EXT_MIRROR
  /\ (pc = "done" /\ query = "IsExternallyMirrored"
      /\ answer = TruthAnswer(TRUE)) =>
       template \in DTS_MIRRORED \ DTS_INT_MIRROR

C16_Witness ==
  /\ pc = "done"
  /\ template = DT_DRBD8
  /\ query = "IsInternallyMirrored"
  /\ answer = TruthAnswer(TRUE)
  /\ template \notin DTS_EXT_MIRROR

\* C17: the storage type is a total function on the eight disk templates:
\* MAP_DISK_TEMPLATE_STORAGE_TYPE has one entry for each of them, every
\* template of any capability set has an entry, and no lookup of the
\* catalogue ends in an error.
C17_StorageTypeTotal ==
  /\ DISK_TEMPLATES
       = {"blockdev", "diskless", "drbd", "ext", "file", "plain", "rbd",
          "sharedfile"}
  /\ Cardinality(DISK_TEMPLATES) = 8
  /\ DOMAIN MAP_DISK_TEMPLATE_STORAGE_TYPE = DISK_TEMPLATES
  /\ \A t \in DISK_TEMPLATES : MAP_DISK_TEMPLATE_STORAGE_TYPE[t] \in STORAGE_TYPES
  /\ \A set \in CapabilitySets : set \subseteq DOMAIN MAP_DISK_TEMPLATE_STORAGE_TYPE
  /\ (pc = "done") =>
       /\ answer.kind # "KeyError"
       /\ (query = "StorageType") =>
            answer.kind = "storage" /\ answer.st \in STORAGE_TYPES
       /\ (query # "StorageType") => answer.kind = "truth"

C17_Witness ==
  /\ pc = "done"
  /\ template = DT_EXT
  /\ template \in DTS_GROWABLE
  /\ query = "StorageType"
  /\ answer = StorageAnswer(ST_EXT)

(***************************************************************************)
(* Properties of the validator                                             *)
(***************************************************************************)
ToUpperChar(c) ==
  IF \E i \in 1..Len(LowerCase) : LowerCase[i] = c
  THEN UpperCase[CHOOSE i \in 1..Len(LowerCase) : LowerCase[i] = c]
  ELSE c

ToUpper(text) == [i \in 1..Len(text) |-> ToUpperChar(text[i])]

\* the unit suffixes and their multipliers, as powers of 1024
StatedUnits == ("m" :> 1 @@ "g" :> 1024 @@ "t" :> 1024 * 1024)

\* the texts of a negative magnitude, with or without a suffix
NegativeSizes ==
  {<<"-">> \o ToDigits(n) \o sf :
     n \in TestMagnitudes \ {0}, sf \in TestSuffixes}

\* C20: size validation round-trips and is case-insensitive: a parsed size,
\* formatted with its canonical unit (or any unit in which it is a whole
\* number) and parsed again, is the same integer; the upper-case and the
\* lower-case suffix give the same integer; no suffix means the base unit;
\* a negative magnitude is InvalidValueType.
C20_SizeRoundTrips ==
  (pc = "done" /\ vtype = VTYPE_SIZE) =>
    /\ value.ok =>
         /\ value.v.k = "int" /\ value.v.n >= 0
         /\ validate(FormatSize(value.v.n), VTYPE_SIZE) = value
         /\ \A u \in ExactUnits(value.v.n) :
              validate(FormatWith(value.v.n, u), VTYPE_SIZE) = value
    /\ validate(ToUpper(rawText), VTYPE_SIZE) = value
    /\ validate(ToLower(rawText), VTYPE_SIZE) = value
    /\ \A n \in TestMagnitudes :
         /\ (rawText = ToDigits(n)) => value = Valid(IntV(n))
         /\ \A u \in DOMAIN StatedUnits :
              (rawText \in {Append(ToDigits(n), u),
                            Append(ToDigits(n), ToUpperChar(u))}) =>
                value = Valid(IntV(n * StatedUnits[u]))
    /\ (rawText \in NegativeSizes) => value = Invalid
    /\ (rawText = <<"1", "g">>) => FormatSize(value.v.n) = <<"1", "g">>

C20_Witness ==
  /\ pc = "done"
  /\ vtype = VTYPE_SIZE
  /\ rawText = <<"1", "G">>
  /\ value = Valid(IntV(1024))
  /\ FormatSize(value.v.n) = <<"1", "g">>
  /\ validate(FormatSize(value.v.n), VTYPE_SIZE) = value

\* C21: validate(raw, MaybeString) gives the absent value exactly when raw
\* is the sentinel "none", and the text unchanged otherwise; the empty text
\* validates to the empty text, which is not the absent value.
C21_MaybeStringSentinel ==
  (pc = "done" /\ vtype = VTYPE_MAYBE_STRING) =>
    /\ value.ok
    /\ (value.v = NoneV) <=> (rawText = <<"n", "o", "n", "e">>)
    /\ (rawText # <<"n", "o", "n", "e">>) => value.v = StrV(rawText)
    /\ (rawText = <<>>) => value.v = StrV(<<>>) /\ value.v # NoneV

C21_Witness ==
  /\ pc = "done"
  /\ vtype = VTYPE_MAYBE_STRING
  /\ rawText = VALUE_NONE
  /\ value = Valid(NoneV)

\* the texts the Bool type accepts, in lower case
StatedTrue == {<<"t", "r", "u", "e">>, <<"y", "e", "s">>}
StatedFalse == {<<"f", "a", "l", "s", "e">>, <<"n", "o">>}

\* C22: validate(raw, Bool) succeeds exactly for the texts true, false, yes
\* and no in any case, true and yes giving the true value, false and no the
\* false value; every other text is InvalidValueType.
C22_BoolTextsOnly ==
  (pc = "done" /\ vtype = VTYPE_BOOL) =>
    /\ value.ok <=> (ToLower(rawText) \in StatedTrue \cup StatedFalse)
    /\ (ToLower(rawText) \in StatedTrue) => value = Valid(BoolV(TRUE))
    /\ (ToLower(rawText) \in StatedFalse) => value = Valid(BoolV(FALSE))
    /\ (ToLower(rawText) \notin StatedTrue \cup StatedFalse) => value = Invalid

C22_Witness ==
  /\ pc = "done"
  /\ vtype = VTYPE_BOOL
  /\ rawText = <<"Y", "E", "S">>
  /\ value = Valid(BoolV(TRUE))

\* the error the checks give for one override, taken in the stated order:
\* unknown key, then value type, then global key
StatedError(it) ==
  IF Undeclared(it) THEN "UnknownParameter"
  ELSE IF BadType(it) THEN "InvalidValueType"
  ELSE IF GlobalNarrow(it) THEN "GlobalParameterOverride"
  ELSE "ok"

\* C25: the checks on an override are applied in the order unknown key,
\* value type, global key, and the scopes in ascending precedence: the error
\* returned is the one of the first offending override; an undeclared key is
\* UnknownParameter whatever its value, and a global key with a value of the
\* wrong type below cluster level is InvalidValueType.
C25_ChecksInOrder ==
  (pc = "done") =>
    /\ (FirstOffender = 0) => effective.status = "ok"
    /\ (FirstOffender # 0) =>
         /\ effective.status = StatedError(Items[FirstOffender])
         /\ effective.key = Items[FirstOffender].key
         /\ effective.scope = Items[FirstOffender].level
    /\ (Len(Items) = 1 /\ Undeclared(Items[1])) =>
         effective.status = "UnknownParameter"
    /\ (entityKind.kind = "node" /\ Len(Items) = 1
        /\ Items[1].key = "exclusive_storage"
        /\ Items[1].raw = <<"m", "a", "y", "b", "e">>) =>
         effective.status = "InvalidValueType"
    /\ (entityKind.kind = "hypervisor" /\ Len(Items) = 1
        /\ Items[1].key = "migration_port"
        /\ Items[1].raw = <<"x", "1">>) =>
         effective.status = "InvalidValueType"

C25_Witness ==
  /\ pc = "done"
  /\ entityKind.kind = "node"
  /\ Len(Items) = 1
  /\ Items[1].level = "instance"
  /\ Items[1].key = "exclusive_storage"
  /\ Items[1].raw = <<"m", "a", "y", "b", "e">>
  /\ effective.status = "InvalidValueType"

(***************************************************************************)
(* Properties of the DRBD barrier options                                  *)
(***************************************************************************)
\* the combinations as stated: no barrier alone, or any non-empty choice
\* among disk barriers, drain and flush
StatedBarrierSets == {{"n"}} \cup ((SUBSET {"b", "d", "f"}) \ {{}})

\* C26: DRBD_VALID_BARRIER_OPT holds exactly {n} and the seven non-empty
\* subsets of {b, d, f}, eight sets in all; no set mixes n with another
\* option; and a text of barrier letters is accepted exactly when its
\* letters form one of those sets.
C26_BarrierSetsExact ==
  /\ DRBD_VALID_BARRIER_OPT = StatedBarrierSets
  /\ Cardinality(DRBD_VALID_BARRIER_OPT) = 8
  /\ \A o \in DRBD_VALID_BARRIER_OPT : "n" \in o => o = {"n"}
  /\ (pc = "done") =>
       (barrierCheck = "valid"
          <=> LetterSet(disabledBarriers) \in StatedBarrierSets)

C26_Witness ==
  /\ pc = "done"
  /\ disabledBarriers = <<"d", "f">>
  /\ barrierCheck = "valid"

(***************************************************************************)
(* Properties of the local disk status                                     *)
(***************************************************************************)
\* the worst status among the children, by name: faulty is worse than
\* unknown, which is worse than ok
WorstName ==
  LET names == {LDS_NAMES[childStatuses[i]] : i \in 1..Len(childStatuses)}
  IN IF "faulty" \in names THEN "faulty"
     ELSE IF "unknown" \in names THEN "unknown"
     ELSE "ok"

\* C27: LDS_OKAY < LDS_UNKNOWN < LDS_FAULTY; LDS_NAMES names exactly these
\* three codes, as ok, unknown and faulty; and the maximum of the statuses
\* of several children is the worst of them.
C27_MaxIsWorst ==
  /\ LDS_OKAY < LDS_UNKNOWN
  /\ LDS_UNKNOWN < LDS_FAULTY
  /\ DOMAIN LDS_NAMES = {LDS_OKAY, LDS_UNKNOWN, LDS_FAULTY}
  /\ Cardinality(DOMAIN LDS_NAMES) = 3
  /\ LDS_NAMES[LDS_OKAY] = "ok"
  /\ LDS_NAMES[LDS_UNKNOWN] = "unknown"
  /\ LDS_NAMES[LDS_FAULTY] = "faulty"
  /\ (pc = "done") =>
       /\ worstStatus \in DOMAIN LDS_NAMES
       /\ LDS_NAMES[worstStatus] = WorstName

C27_Witness ==
  /\ pc = "done"
  /\ childStatuses = <<LDS_OKAY, LDS_FAULTY, LDS_UNKNOWN>>
  /\ worstStatus = LDS_FAULTY

LexLess(a, b) ==
  \/ a.major < b.major
  \/ a.major = b.major /\ a.minor < b.minor
  \/ a.major = b.major /\ a.minor = b.minor /\ a.revision < b.revision

\* C29: for triples with 0 <= minor <= 99 and 0 <= revision <= 9999,
\* BuildVersion(a) < BuildVersion(b) exactly when a precedes b
\* lexicographically; and CONFIG_REVISION is 0, so that PROTOCOL_VERSION,
\* CONFIG_VERSION and LUXI_VERSION are the same integer.
C29_OrderPreserved ==
  /\ CONFIG_REVISION = 0
  /\ (pc # "start") =>
       LET a == versionArgs.a
           b == versionArgs.b
           va == versionInts.a
           vb == versionInts.b
       IN /\ (InRange(a) /\ InRange(b) /\ va.type = "int" /\ vb.type = "int")
               => ((va.n < vb.n) <=> LexLess(a, b))
          /\ versionInts.config.type # "none"
          /\ versionInts.protocol = versionInts.config
          /\ versionInts.luxi = versionInts.config

C29_Witness ==
  /\ pc = "done"
  /\ versionArgs.a = Triple(0, 99, 9999)
  /\ versionArgs.b = Triple(1, 0, 0)
  /\ versionInts.a = IntObj(999999)
  /\ versionInts.b = IntObj(1000000)
  /\ versionInts.config = IntObj(990000)
  /\ versionInts.luxi = versionInts.protocol

(***************************************************************************)
(* Properties of the defaults tables of the variants                       *)
(***************************************************************************)
\* the disk templates that have a storage type
StoredTemplates == DOMAIN MAP_DISK_TEMPLATE_STORAGE_TYPE

StatedHypervisors == {"xen-pvm", "xen-hvm", "kvm", "fake", "chroot", "lxc"}

\* a resolution without overrides returns the defaults entry of its variant
StartsFromVariantDefaults ==
  (pc = "done" /\ Len(Items) = 0) =>
    /\ entityKind.kind = "hypervisor" =>
         /\ effective.status = "ok"
         /\ effective.map = HVC_DEFAULTS[entityKind.variant]
    /\ entityKind.kind = "disk" =>
         /\ effective.status = "ok"
         /\ effective.map = DISK_DT_DEFAULTS[entityKind.variant]

\* C30: HVC_DEFAULTS has an entry for each of the six hypervisors and
\* DISK_DT_DEFAULTS an entry, possibly empty, for each disk template that
\* has a storage type, so that every resolution has a defaults table to
\* start from; DISK_LD_DEFAULTS has an entry for each of those templates
\* but diskless.
C30_VariantsHaveDefaults ==
  /\ HYPER_TYPES = StatedHypervisors
  /\ DOMAIN HVC_DEFAULTS = StatedHypervisors
  /\ DOMAIN DISK_DT_DEFAULTS = StoredTemplates
  /\ DOMAIN DISK_LD_DEFAULTS = StoredTemplates \ {DT_DISKLESS}
  /\ StartsFromVariantDefaults

C30_Witness ==
  /\ pc = "done"
  /\ entityKind = EntityKind("disk", DT_DISKLESS)
  /\ Len(Items) = 0
  /\ effective.status = "ok"
  /\ DOMAIN effective.map = {}

\* C30 as stated: DISK_LD_DEFAULTS too has an entry for every disk
\* template that has a storage type
C30_AsStated ==
  /\ DOMAIN HVC_DEFAULTS = StatedHypervisors
  /\ \A t \in StoredTemplates : t \in DOMAIN DISK_DT_DEFAULTS
  /\ (pc = "done") =>
       \A t \in StoredTemplates : t \in DOMAIN DISK_LD_DEFAULTS

(***************************************************************************)
(* Configuration reload.  An instance of the configuration holds the       *)
(* tables and the policy the calls read.  A reload builds a new instance   *)
(* and swaps the reference that new calls receive; a call keeps the        *)
(* instance it received when it began.  Calls run in parallel: each takes  *)
(* one step at a time, an evaluation one bracket and a resolution one      *)
(* override, and reloads happen between any two steps.                     *)
(***************************************************************************)
MaxCalls == 2
MaxReloads == 2

Instance(pol, defaults, compat) ==
  [policy |-> pol, defaults |-> defaults, compat |-> compat]

\* the instance loaded at start, and the one a changed configuration gives
LoadedInstance ==
  Instance(IPOLICY_DEFAULTS, NICC_DEFAULTS, BES_PARAMETER_COMPAT)

ChangedInstance ==
  Instance([IPOLICY_DEFAULTS EXCEPT
              !["minmax"] = <<LargeBracket, ISPECS_MINMAX_DEFAULTS>>,
              !["disk-templates"] = {DT_PLAIN, DT_DRBD8}],
           [NICC_DEFAULTS EXCEPT !["link"] = StrV(<<"b", "r", "1">>)],
           BES_PARAMETER_COMPAT)

FullInstances == {LoadedInstance, ChangedInstance}

\* every reload changes the configuration: it gives the instance other
\* than the current one
NextInstance(cfg) ==
  IF cfg = LoadedInstance THEN ChangedInstance ELSE LoadedInstance

\* the calls: the odd ones are evaluations, the even ones resolutions of
\* the parameters of a NIC
CallIds == 1..MaxCalls
KindOf(c) == IF c % 2 = 1 THEN "evaluate" ELSE "resolve"
NicKind == EntityKind("nic", "none")

EvalInputs ==
  {[spec |-> BaseSpec, template |-> DT_PLAIN],
   [spec |-> ScenarioB, template |-> DT_PLAIN],
   [spec |-> BaseSpec, template |-> DT_DISKLESS]}

ResolveInputs ==
  {<<>>,
   ScenarioD,
   <<[level |-> "instance", items |-> <<Override("mtu", <<"9">>)>>]>>}

IdleCall(c) ==
  [state |-> "idle", kind |-> KindOf(c), spec |-> BaseSpec,
   template |-> DT_PLAIN, chain |-> <<>>, snapshot |-> 0, given |-> <<>>,
   pos |-> 0, running |-> <<>>, admission |-> NoAdmission,
   effective |-> NoResult]

InitReload ==
  /\ pc = "run"
  /\ EngineIdle
  /\ DrbdIdle /\ LdsIdle /\ VersionIdle
  /\ store = <<LoadedInstance>>
  /\ current = 1
  /\ building = <<>>
  /\ calls = [c \in CallIds |-> IdleCall(c)]

\* the new instance is created with the first of its tables begun: the
\* compatibility table holds its own key only
BeginBuild ==
  /\ building = <<>>
  /\ Len(store) <= MaxReloads
  /\ building' = <<[stage |-> "created",
                    cfg |-> [NextInstance(store[current]) EXCEPT
                               !.compat = ("memory" :> VTYPE_SIZE)]]>>
  /\ UNCHANGED <<pc, engineVars, drbdVars, ldsVars, versionVars,
                 store, current, calls>>

\* the table under construction is updated with the backend types
FinishBuild ==
  /\ Len(building) = 1
  /\ building[1].stage = "created"
  /\ building' = <<[stage |-> "complete",
                    cfg |-> [building[1].cfg EXCEPT
                               !.compat = BES_PARAMETER_TYPES @@ @]]>>
  /\ UNCHANGED <<pc, engineVars, drbdVars, ldsVars, versionVars,
                 store, current, calls>>

\* mutant: an instance is handed out as soon as it is created
Publishable_created(b) == b.stage \in {"created", "complete"}

\* an instance is handed out once its construction is complete
Publishable(b) == b.stage = "complete"

\* the reference used by new calls is swapped in one step
Swap ==
  /\ Len(building) = 1
  /\ Publishable(building[1])
  /\ store' = Append(store, building[1].cfg)
  /\ current' = Len(store) + 1
  /\ building' = <<>>
  /\ UNCHANGED <<pc, engineVars, drbdVars, ldsVars, versionVars, calls>>

\* a call begins: it receives the current instance
BeginEvaluate(c, in) ==
  /\ calls[c].state = "idle"
  /\ calls[c].kind = "evaluate"
  /\ calls' = [calls EXCEPT
                 ![c] = [@ EXCEPT !.state = "running",
                                  !.spec = in.spec,
                                  !.template = in.template,
                                  !.snapshot = current,
                                  !.given = <<store[current]>>]]
  /\ UNCHANGED <<pc, engineVars, drbdVars, ldsVars, versionVars,
                 store, current, building>>

BeginResolve(c, chain) ==
  /\ calls[c].state = "idle"
  /\ calls[c].kind = "resolve"
  /\ calls' = [calls EXCEPT
                 ![c] = [@ EXCEPT !.state = "running",
                                  !.chain = chain,
                                  !.snapshot = current,
                                  !.given = <<store[current]>>]]
  /\ UNCHANGED <<pc, engineVars, drbdVars, ldsVars, versionVars,
                 store, current, building>>

\* mutant: a call in flight reads through the reference of new calls
Snapshot_current(c) == store[current]

\* the instance a call in flight reads
Snapshot(c) == store[calls[c].snapshot]

Decided(call, result) ==
  [call EXCEPT !.state = "done", !.admission = result]

\* one step of an evaluation: the disk template, then one bracket after
\* the other, then the closest bracket and its diagnostics
StepEvaluate(c) ==
  /\ calls[c].state = "running"
  /\ calls[c].kind = "evaluate"
  /\ LET call == calls[c]
         pol == Snapshot(c).policy
         brackets == pol["minmax"]
         k == call.pos
     IN calls' = [calls EXCEPT ![c] =
          IF k = 0
          THEN IF call.template \notin pol["disk-templates"]
               THEN Decided(call,
                      [decision |-> "Rejected",
                       reason |-> "DisallowedDiskTemplate",
                       bracket |-> 0, diagnostics |-> {}])
               ELSE [call EXCEPT !.pos = 1]
          ELSE IF k <= Len(brackets)
          THEN IF Matches(call.spec, brackets[k])
               THEN Decided(call,
                      [decision |-> "Accepted", reason |-> "None",
                       bracket |-> k, diagnostics |-> {}])
               ELSE [call EXCEPT !.pos = k + 1]
          ELSE LET closest == Closest(call.spec, brackets)
               IN Decided(call,
                    [decision |-> "Rejected", reason |-> "NoMatchingBracket",
                     bracket |-> closest,
                     diagnostics |->
                       Diagnostics(call.spec, brackets[closest])])]
  /\ UNCHANGED <<pc, engineVars, drbdVars, ldsVars, versionVars,
                 store, current, building>>

\* one step of a resolution: the defaults, then one override after the
\* other
StepResolve(c) ==
  /\ calls[c].state = "running"
  /\ calls[c].kind = "resolve"
  /\ LET call == calls[c]
         its == Flatten(call.chain)
         k == call.pos
     IN calls' = [calls EXCEPT ![c] =
          IF k = 0
          THEN [call EXCEPT !.running = Snapshot(c).defaults, !.pos = 1]
          ELSE IF k > Len(its)
          THEN [call EXCEPT !.state = "done",
                            !.effective = Success(call.running)]
          ELSE LET status == Check(NicKind, its[k])
               IN IF status # "ok"
                  THEN [call EXCEPT !.state = "done",
                                    !.effective = Failure(status, its[k])]
                  ELSE [call EXCEPT
                          !.running =
                            (its[k].key :>
                               validate(its[k].raw,
                                        ParameterTable(NicKind)[its[k].key]).v)
                            @@ call.running,
                          !.pos = k + 1]]
  /\ UNCHANGED <<pc, engineVars, drbdVars, ldsVars, versionVars,
                 store, current, building>>

NextReload ==
  \/ BeginBuild
  \/ FinishBuild
  \/ Swap
  \/ \E c \in CallIds : \E in \in EvalInputs : BeginEvaluate(c, in)
  \/ \E c \in CallIds : \E chain \in ResolveInputs : BeginResolve(c, chain)
  \/ \E c \in CallIds : StepEvaluate(c)
  \/ \E c \in CallIds : StepResolve(c)

SpecReload == InitReload /\ [][NextReload]_vars

(***************************************************************************)
(* Properties of the configuration reload                                  *)
(***************************************************************************)
\* the result of a call run alone against the instance it was given
AloneResult(call) ==
  IF call.kind = "evaluate"
  THEN evaluate(call.spec, call.template, call.given[1].policy)
  ELSE Apply(NicKind, Flatten(call.chain), 1, call.given[1].defaults)

ResultOf(call) ==
  IF call.kind = "evaluate" THEN call.admission ELSE call.effective

\* C23: whatever the interleaving of calls and reloads, each finished call
\* has the result it has when run alone against the instance it was given
\* when it began; that instance is one handed out at or before the current
\* one, and a reload changes only which instance later calls receive.
C23_SnapshotIsolation ==
  \A c \in CallIds :
    LET call == calls[c]
    IN /\ (call.state = "done") => ResultOf(call) = AloneResult(call)
       /\ (call.state # "idle") => call.snapshot \in 1..current

C23_Witness ==
  \E c \in CallIds :
    LET call == calls[c]
    IN /\ call.state = "done"
       /\ call.kind = "evaluate"
       /\ call.snapshot < current
       /\ call.pos > 0
       /\ store[current] # call.given[1]
       /\ call.admission = AloneResult(call)
       /\ call.admission #
            evaluate(call.spec, call.template, store[current].policy)

\* C24: every instance a reader can reach is a fully constructed one: the
\* instances handed out are complete, the one a call reads is still equal
\* to the one it was given, and the instance under construction is reached
\* by no call.
C24_OnlyFullVersions ==
  /\ current \in 1..Len(store)
  /\ \A i \in 1..Len(store) : store[i] \in FullInstances
  /\ \A c \in CallIds :
       (calls[c].state # "idle") =>
         /\ calls[c].snapshot \in 1..Len(store)
         /\ Snapshot(c) = calls[c].given[1]
         /\ Snapshot(c).compat = BES_PARAMETER_COMPAT

C24_Witness ==
  /\ Len(building) = 1
  /\ building[1].stage = "created"
  /\ building[1].cfg \notin FullInstances
  /\ \E c \in CallIds :
       /\ calls[c].state = "running"
       /\ calls[c].snapshot < current
       /\ Snapshot(c) # store[current]

====
